---------------------------- MODULE Spec2Model ----------------------------
(***************************************************************************)
(* A model of the cloud-service comparison pipeline (src/main.py and       *)
(* src/pipeline/*.py): the file-backed TTL cache, the per-pair stage       *)
(* machine of process_service_item, the discovery and batch-matching       *)
(* phases and the fan-out/fan-in of main.                                  *)
(*                                                                         *)
(* Conventions.                                                            *)
(*  - A Python str is a tuple of one-character strings, so that lower()    *)
(*    and replace() are computed character by character.                   *)
(*  - A Python/JSON value is a record [t |-> tag, v |-> tuple]; None is    *)
(*    JSON null.  Dictionaries keep insertion order (a tuple of            *)
(*    <<field, value>> pairs); field names are atoms.                      *)
(*  - A file holds a tuple of JSON tokens (the lexer is abstracted, the    *)
(*    grammar is not): json.dump writes tokens, json.load parses them.     *)
(*  - asyncio is cooperative: a task runs without interruption from one    *)
(*    await to the next, so each action of a task is one such section.     *)
(***************************************************************************)
EXTENDS Integers, Sequences, FiniteSets, TLC

(***************************************************************************)
(* Python strings                                                          *)
(***************************************************************************)
Upper ==
  <<"A", "B", "C", "D", "E", "F", "G", "H", "I", "J", "K", "L", "M", "N", "O", "P", "Q", "R",
    "S", "T", "U", "V", "W", "X", "Y", "Z">>
Lower ==
  <<"a", "b", "c", "d", "e", "f", "g", "h", "i", "j", "k", "l", "m", "n", "o", "p", "q", "r",
    "s", "t", "u", "v", "w", "x", "y", "z">>

\* str.lower() on one character
lower_char(c) ==
  IF \E i \in 1..Len(Upper) : Upper[i] = c
  THEN Lower[CHOOSE i \in 1..Len(Upper) : Upper[i] = c]
  ELSE c

\* str.lower()
lower(s) == [i \in 1..Len(s) |-> lower_char(s[i])]

\* str.replace(old, new) for one-character old and new
replace(s, old, new) == [i \in 1..Len(s) |-> IF s[i] = old THEN new ELSE s[i]]

(***************************************************************************)
(* Python / JSON values                                                    *)
(***************************************************************************)
None == [t |-> "null", v |-> <<>>]
JStr(s) == [t |-> "str", v |-> s]
JNum(n) == [t |-> "num", v |-> <<n>>]
JBool(b) == [t |-> "bool", v |-> <<b>>]
JList(xs) == [t |-> "list", v |-> xs]
JDict(kvs) == [t |-> "dict", v |-> kvs]

\* Python truthiness: `if x` / `not x`
Truthy(x) ==
  CASE x.t = "null" -> FALSE
    [] x.t = "num" -> x.v[1] # 0
    [] x.t = "bool" -> x.v[1]
    [] OTHER -> Len(x.v) > 0

\* `k in d` for a dict d
HasKey(d, k) == d.t = "dict" /\ \E i \in 1..Len(d.v) : d.v[i][1] = k

\* d.get(k, default)
dict_get(d, k, default) ==
  IF HasKey(d, k)
  THEN d.v[CHOOSE i \in 1..Len(d.v) : d.v[i][1] = k][2]
  ELSE default

\* d[k] = x : replaces the value of an existing key, appends a new one
dict_setitem(d, k, x) ==
  IF HasKey(d, k)
  THEN JDict([i \in 1..Len(d.v) |-> IF d.v[i][1] = k THEN <<k, x>> ELSE d.v[i]])
  ELSE JDict(Append(d.v, <<k, x>>))

(***************************************************************************)
(* json.dump / json.load over token sequences                              *)
(***************************************************************************)
Punct(c) == [t |-> "p", v |-> <<c>>]
KeyTok(k) == [t |-> "key", v |-> <<k>>]

RECURSIVE json_dump(_)
RECURSIVE dump_items(_, _)
RECURSIVE dump_members(_, _)

\* the elements xs[i..] of a list, comma separated
dump_items(xs, i) ==
  IF i > Len(xs) THEN <<>>
  ELSE (IF i > 1 THEN <<Punct(",")>> ELSE <<>>) \o json_dump(xs[i]) \o dump_items(xs, i + 1)

\* the members kvs[i..] of a dict, comma separated
dump_members(kvs, i) ==
  IF i > Len(kvs) THEN <<>>
  ELSE (IF i > 1 THEN <<Punct(",")>> ELSE <<>>)
       \o <<KeyTok(kvs[i][1]), Punct(":")>> \o json_dump(kvs[i][2])
       \o dump_members(kvs, i + 1)

\* json.dump(data, f, indent=2): the tokens written
json_dump(x) ==
  CASE x.t = "list" -> <<Punct("[")>> \o dump_items(x.v, 1) \o <<Punct("]")>>
    [] x.t = "dict" -> <<Punct("{")>> \o dump_members(x.v, 1) \o <<Punct("}")>>
    [] OTHER -> <<x>>

JSONDecodeError == [ok |-> FALSE, val |-> None, next |-> 0]

IsPunct(toks, i, c) == i <= Len(toks) /\ toks[i] = Punct(c)

RECURSIVE parse_value(_, _)
RECURSIVE parse_items(_, _, _)
RECURSIVE parse_members(_, _, _)

\* the elements of a list after "[" (acc: the elements read so far)
parse_items(toks, i, acc) ==
  LET e == parse_value(toks, i) IN
  IF ~e.ok THEN JSONDecodeError
  ELSE IF IsPunct(toks, e.next, "]")
       THEN [ok |-> TRUE, val |-> JList(Append(acc, e.val)), next |-> e.next + 1]
  ELSE IF IsPunct(toks, e.next, ",")
       THEN parse_items(toks, e.next + 1, Append(acc, e.val))
  ELSE JSONDecodeError

\* the members of a dict after "{" (acc: the members read so far)
parse_members(toks, i, acc) ==
  IF ~(i + 1 <= Len(toks) /\ toks[i].t = "key" /\ toks[i + 1] = Punct(":"))
  THEN JSONDecodeError
  ELSE LET e == parse_value(toks, i + 2) IN
       IF ~e.ok THEN JSONDecodeError
       ELSE LET d == dict_setitem(JDict(acc), toks[i].v[1], e.val).v IN
            IF IsPunct(toks, e.next, "}")
            THEN [ok |-> TRUE, val |-> JDict(d), next |-> e.next + 1]
            ELSE IF IsPunct(toks, e.next, ",")
                 THEN parse_members(toks, e.next + 1, d)
            ELSE JSONDecodeError

\* one JSON value starting at token i
parse_value(toks, i) ==
  IF i > Len(toks) THEN JSONDecodeError
  ELSE CASE toks[i].t \in {"null", "str", "num", "bool"} ->
              [ok |-> TRUE, val |-> toks[i], next |-> i + 1]
         [] toks[i] = Punct("[") ->
              IF IsPunct(toks, i + 1, "]")
              THEN [ok |-> TRUE, val |-> JList(<<>>), next |-> i + 2]
              ELSE parse_items(toks, i + 1, <<>>)
         [] toks[i] = Punct("{") ->
              IF IsPunct(toks, i + 1, "}")
              THEN [ok |-> TRUE, val |-> JDict(<<>>), next |-> i + 2]
              ELSE parse_members(toks, i + 1, <<>>)
         [] OTHER -> JSONDecodeError

\* json.load(f): the whole text must be one value ("Extra data" otherwise)
json_load(toks) ==
  LET e == parse_value(toks, 1) IN
  IF e.ok /\ e.next = Len(toks) + 1 THEN e ELSE JSONDecodeError

(***************************************************************************)
(* State                                                                   *)
(***************************************************************************)
VARIABLES
  files,   \* the file system under cache_dir: path -> [text, mtime]
  now,     \* time.time(), in seconds
  last     \* the last cache operation made directly: [op, key, arg, ret]

cacheVars == <<files, now>>

(***************************************************************************)
(* CacheManager (src/pipeline/cache.py)                                    *)
(***************************************************************************)
max_age_days == 7
max_age_seconds == max_age_days * 24 * 60 * 60

cache_dir == <<"d", "a", "t", "a">>

\* CacheManager._get_filepath: os.path.join(cache_dir, f"{key}.json")
get_filepath(key) == cache_dir \o <<"/">> \o key \o <<".", "j", "s", "o", "n">>

\* os.path.dirname
dirname(path) ==
  IF \E i \in 1..Len(path) : path[i] = "/"
  THEN LET j == CHOOSE i \in 1..Len(path) :
                  path[i] = "/" /\ \A m \in (i + 1)..Len(path) : path[m] # "/"
       IN SubSeq(path, 1, j - 1)
  ELSE <<>>

\* open(filepath, "w") raises FileNotFoundError (an OSError) unless the parent
\* directory exists; __init__ and clear create cache_dir and nothing else does.
open_w_fails(filepath) == dirname(filepath) # cache_dir

\* the inline validation check of get and set
invalid_data(data) == data.t = "null" \/ (data.t \in {"list", "dict"} /\ ~Truthy(data))

\* a byte that is not UTF-8, as a file may hold it
BadByte == [t |-> "byte", v |-> <<"ff">>]

\* f.read() of a file opened in text mode decodes the whole text
decodes(text) == \A i \in 1..Len(text) : text[i].t # "byte"

\* the exception f.read() raises otherwise: a ValueError that is neither a
\* json.JSONDecodeError nor an OSError, so get does not catch it
UnicodeDecodeError == [t |-> "raise", v |-> <<"UnicodeDecodeError">>]

\* a faulty get: the age of the file is not looked at
cache_get_no_expiry(fs, t, key) ==
  LET filepath == get_filepath(key) IN
  IF filepath \notin DOMAIN fs THEN None
  ELSE IF ~decodes(fs[filepath].text) THEN UnicodeDecodeError
  ELSE LET data == json_load(fs[filepath].text) IN
       IF ~data.ok THEN None
       ELSE IF invalid_data(data.val) THEN None
       ELSE data.val

\* CacheManager.get: the value returned, or the exception raised
cache_get(fs, t, key) ==
  LET filepath == get_filepath(key) IN
  IF filepath \notin DOMAIN fs THEN None
  ELSE LET file_age == t - fs[filepath].mtime IN
       IF file_age > max_age_seconds THEN None
       ELSE IF ~decodes(fs[filepath].text) THEN UnicodeDecodeError
       ELSE LET data == json_load(fs[filepath].text) IN
            IF ~data.ok THEN None
            ELSE IF invalid_data(data.val) THEN None
            ELSE data.val

\* a faulty get: an expired file is removed
files_after_get_evicting(fs, t, key) ==
  LET filepath == get_filepath(key) IN
  IF filepath \in DOMAIN fs /\ t - fs[filepath].mtime > max_age_seconds
  THEN [p \in DOMAIN fs \ {filepath} |-> fs[p]]
  ELSE fs

\* CacheManager.get: the file system after it. get tests the path (line 20),
\* reads the modification time (line 24) and opens the file for reading
\* (line 29); none of the three writes, on any of its paths.
files_after_get(fs, t, key) == fs

\* a faulty set: the validation check is left out
cache_set_unvalidated(fs, t, key, data) ==
  LET filepath == get_filepath(key) IN
  IF open_w_fails(filepath) THEN fs
  ELSE [p \in DOMAIN fs \cup {filepath} |->
          IF p = filepath THEN [text |-> json_dump(data), mtime |-> t] ELSE fs[p]]

\* CacheManager.set: the file system after it
cache_set(fs, t, key, data) ==
  IF invalid_data(data) THEN fs
  ELSE LET filepath == get_filepath(key) IN
       IF open_w_fails(filepath) THEN fs
       ELSE [p \in DOMAIN fs \cup {filepath} |->
               IF p = filepath THEN [text |-> json_dump(data), mtime |-> t] ELSE fs[p]]

\* a faulty clear: the directory is left as it is
cache_clear_keeps(fs) == fs

\* CacheManager.clear: shutil.rmtree(cache_dir); os.makedirs(cache_dir)
cache_clear(fs) == [p \in {} |-> [text |-> <<>>, mtime |-> 0]]

(***************************************************************************)
(* The run's inputs and the answers of the inference service               *)
(*                                                                         *)
(* The service is external.  Its answers follow the response schema each   *)
(* request carries (an object of the stage's shape) or the request fails;  *)
(* an answer may be the empty object.                                      *)
(***************************************************************************)
\* --csp-a / --csp-b
csp_a == <<"A", "W", "S">>
csp_b == <<"G", "C", "P">>

EC2 == <<"E", "C", "2">>
Ec2 == <<"E", "c", "2">>
SNS == <<"S", "N", "S">>
GCE == <<"G", "C", "E">>
PubSub == <<"P", "u", "b", "/", "S", "u", "b">>

\* one catalog entry of a service list
Entry(name) == JDict(<<<<"service_name", JStr(name)>>, <<"service_url", JStr(<<"u">>)>>>>)

ServicesA == <<Entry(EC2), Entry(SNS), Entry(Ec2)>>
ServicesB == <<Entry(GCE), Entry(PubSub)>>

\* a service-map item as the batch schema shapes it
Item(domain, a, b) ==
  JDict(<<<<"domain", JStr(domain)>>, <<"csp_a_service_name", JStr(a)>>,
          <<"csp_a_url", JStr(<<"u">>)>>, <<"csp_b_service_name", JStr(b)>>,
          <<"csp_b_url", JStr(<<"v">>)>>>>)

\* the same without a domain field
ItemNoDomain(a, b) ==
  JDict(<<<<"csp_a_service_name", JStr(a)>>, <<"csp_a_url", JStr(<<"u">>)>>,
          <<"csp_b_service_name", JStr(b)>>, <<"csp_b_url", JStr(<<"v">>)>>>>)

\* the match the service answers for one entry of provider A (the answer
\* for SNS leaves the optional domain out)
BestMatch(entry) ==
  LET n == dict_get(entry, "service_name", None).v IN
  IF n = SNS THEN ItemNoDomain(SNS, PubSub) ELSE Item(<<"C">>, n, GCE)

\* an exception raised by a call, as an outcome beside the values
Raise == [t |-> "raise", v |-> <<>>]

\* GeminiClient.generate_content for a service list: the list, or None
ServiceListAnswers(csp) ==
  { JDict(<<<<"services", JList(IF csp = csp_a THEN ServicesA ELSE ServicesB)>>>>), None }

\* GeminiClient.generate_content for one chunk: the matches, a response
\* without the items list, None, or an exception
BatchAnswers(chunk) ==
  { JDict(<<<<"items", JList([i \in 1..Len(chunk) |-> BestMatch(chunk[i])])>>>>),
    JDict(<<>>), None, Raise }

StageName(item) ==
  dict_get(item, "csp_a_service_name", None).v \o <<"_", "v", "s", "_">>
    \o dict_get(item, "csp_b_service_name", None).v

\* TechnicalAnalyst.perform_analysis: a document, the empty object, or None
\* (every exception is caught there and becomes None)
TechnicalAnswers(item) ==
  { JDict(<<<<"service_pair_id", JStr(StageName(item))>>, <<"technical_score", JNum(9)>>>>),
    JDict(<<>>), None }

\* PricingAnalyst.perform_analysis, likewise
PricingAnswers(item) ==
  { JDict(<<<<"service_pair_id", JStr(StageName(item))>>, <<"cost_efficiency_score", JNum(8)>>>>),
    JDict(<<>>), None }

\* Synthesizer.synthesize: the Result object built around the model's
\* synthesis, or None (every exception is caught there)
SynthesisAnswers(service_pair_id, technical_data, pricing_data, t) ==
  { JDict(<<<<"metadata", JDict(<<<<"service_pair_id", JStr(service_pair_id)>>,
                                  <<"generated_at", JNum(t)>>>>)>>,
            <<"technical_data", technical_data>>,
            <<"pricing_data", pricing_data>>,
            <<"synthesis", JDict(<<<<"executive_summary", JStr(<<"s">>)>>>>)>>>>),
    None }

\* Synthesizer.generate_management_summary, which main calls and
\* src/pipeline/synthesizer.py does not define: one request answered by a
\* summary of the domains (the shape test_generate_management_summary
\* expects) or by None
SummaryAnswers(synthesis_by_domain) ==
  { JDict(<<<<"overarching_summary", JStr(<<"o">>)>>,
            <<"domain_summaries", synthesis_by_domain>>>>),
    None }

(***************************************************************************)
(* Cache keys (src/main.py)                                                *)
(***************************************************************************)
\* format_service_name
\* a faulty key part: the provider is left out
format_service_name_no_csp(csp, service_name) ==
  replace(lower(service_name), " ", "_")

format_service_name(csp, service_name) ==
  replace(lower(csp \o <<"_">> \o service_name), " ", "_")

\* process_service_item lines 32-34, for the providers it is called with
service_pair_id(provider_a, a, provider_b, b) ==
  format_service_name(provider_a, a) \o <<"_", "v", "s", "_">>
    \o format_service_name(provider_b, b)

\* f"{formatted_service_a}_vs_{formatted_service_b}", for the providers of the run
pair_id(a, b) == service_pair_id(csp_a, a, csp_b, b)

technical_key(id) == <<"t", "e", "c", "h", "n", "i", "c", "a", "l", "_">> \o id
pricing_key(id) == <<"p", "r", "i", "c", "i", "n", "g", "_">> \o id
result_key(id) == <<"r", "e", "s", "u", "l", "t", "_">> \o id
service_list_key(csp) ==
  <<"s", "e", "r", "v", "i", "c", "e", "_", "l", "i", "s", "t", "_">> \o csp
service_map_key ==
  <<"s", "e", "r", "v", "i", "c", "e", "_", "m", "a", "p", "_">> \o csp_a \o <<"_">> \o csp_b
management_summary_key(test_mode) ==
  <<"m", "a", "n", "a", "g", "e", "m", "e", "n", "t", "_", "s", "u", "m", "m", "a", "r", "y", "_">>
    \o csp_a \o <<"_">> \o csp_b
    \o (IF test_mode THEN <<"_", "t", "e", "s", "t">> ELSE <<>>)

(***************************************************************************)
(* process_service_item (src/main.py): one task per service-map item.      *)
(* A configuration c = [t, fs] is the task's locals and the file system;   *)
(* each operator runs the code from one line to the next await or return.  *)
(***************************************************************************)
NewTask(item) ==
  [ pc |-> "start", item |-> item, service_pair_id |-> <<>>,
    tech_data |-> None, pricing_data |-> None, result_json |-> None, ret |-> None,
    hist |-> <<>>,        \* the states of the pair's state machine, in order
    gets |-> <<>>,        \* cache.get calls: [key, hit]
    invoked |-> <<>>,     \* analyst / synthesizer calls: the stage names
    sets |-> <<>>,        \* cache.set calls: the keys
    synth_args |-> <<None, None>> ] \* the arguments of synthesizer.synthesize

Enter(c, state) == [c EXCEPT !.t.hist = Append(@, state)]
Looked(c, key, data) == [c EXCEPT !.t.gets = Append(@, [key |-> key, hit |-> Truthy(data)])]
Stored(c, key, data) ==
  [c EXCEPT !.fs = cache_set(c.fs, now, key, data), !.t.sets = Append(@, key)]

\* a faulty drop: the failed pair is returned like a processed one
Drop_returns_pair(c) ==
  [Enter(c, "DROPPED") EXCEPT
     !.t.pc = "done",
     !.t.ret = JDict(<<<<"map", c.t.item>>,
                       <<"result", JDict(<<<<"synthesis", c.t.result_json>>>>)>>>>)]

\* `return None` after a failed stage: the pair is dropped
Drop(c) == [Enter(c, "DROPPED") EXCEPT !.t.pc = "done", !.t.ret = None]

\* an exception inside `async with semaphore`: the task ends with it
Throw(c, e) == [c EXCEPT !.t.pc = "raised", !.t.ret = [t |-> "raise", v |-> <<e>>]]

\* lines 73-77: return {"map": item, "result": result_json}
Finish(c) ==
  [Enter(c, "SYNTHESIZED") EXCEPT
     !.t.pc = "done",
     !.t.ret = JDict(<<<<"map", c.t.item>>, <<"result", c.t.result_json>>>>)]

\* a faulty synthesis stage: the result is returned but never cached
SynthesisReturned_no_set(c, result_json) ==
  IF Truthy(result_json)
  THEN Finish([c EXCEPT !.t.result_json = result_json])
  ELSE Drop(c)

\* lines 67-71: the synthesizer returned result_json
SynthesisReturned(c, result_json) ==
  IF Truthy(result_json)
  THEN Finish(Stored([c EXCEPT !.t.result_json = result_json],
                     result_key(c.t.service_pair_id), result_json))
  ELSE Drop(c)

\* lines 62-66: look the result up, call the synthesizer on a miss
SynthesisStage(c) ==
  LET key == result_key(c.t.service_pair_id)
      result_json == cache_get(c.fs, now, key)
      c1 == Looked(c, key, result_json)
  IN IF ~Truthy(result_json)
     THEN [c1 EXCEPT !.t.pc = "synth_call",
                     !.t.invoked = Append(@, "synthesis"),
                     !.t.synth_args = <<c.t.tech_data, c.t.pricing_data>>]
     ELSE Finish([c1 EXCEPT !.t.result_json = result_json])

\* a faulty pricing stage: `return None` is missing after the warning
PricingReturned_goes_on(c, pricing_data) ==
  IF Truthy(pricing_data)
  THEN LET d == dict_setitem(pricing_data, "service_pair_id", JStr(c.t.service_pair_id)) IN
       SynthesisStage(Enter(Stored([c EXCEPT !.t.pricing_data = d],
                                   pricing_key(c.t.service_pair_id), d),
                            "PRICING_DONE"))
  ELSE SynthesisStage(Enter(c, "DROPPED"))

\* lines 55-60: the pricing analyst returned pricing_data
PricingReturned(c, pricing_data) ==
  IF Truthy(pricing_data) /\ pricing_data.t # "dict"
  THEN Throw(c, "TypeError")   \* line 57: item assignment on a value that is no dict
  ELSE IF Truthy(pricing_data)
  THEN LET d == dict_setitem(pricing_data, "service_pair_id", JStr(c.t.service_pair_id)) IN
       SynthesisStage(Enter(Stored([c EXCEPT !.t.pricing_data = d],
                                   pricing_key(c.t.service_pair_id), d),
                            "PRICING_DONE"))
  ELSE Drop(c)

\* a faulty pipeline: the synthesis starts without the pricing document
PricingStage_skipped(c) == SynthesisStage(c)

\* lines 50-54: look the pricing document up, call the analyst on a miss
PricingStage(c) ==
  LET key == pricing_key(c.t.service_pair_id)
      pricing_data == cache_get(c.fs, now, key)
      c1 == Looked(c, key, pricing_data)
  IN IF ~Truthy(pricing_data)
     THEN [c1 EXCEPT !.t.pc = "pricing_call", !.t.invoked = Append(@, "pricing")]
     ELSE SynthesisStage(Enter([c1 EXCEPT !.t.pricing_data = pricing_data], "PRICING_DONE"))

\* lines 43-48: the technical analyst returned tech_data
TechnicalReturned(c, tech_data) ==
  IF Truthy(tech_data) /\ tech_data.t # "dict"
  THEN Throw(c, "TypeError")   \* line 45: item assignment on a value that is no dict
  ELSE IF Truthy(tech_data)
  THEN LET d == dict_setitem(tech_data, "service_pair_id", JStr(c.t.service_pair_id)) IN
       PricingStage(Enter(Stored([c EXCEPT !.t.tech_data = d],
                                 technical_key(c.t.service_pair_id), d),
                          "TECHNICAL_DONE"))
  ELSE Drop(c)

\* lines 38-42: look the technical document up, call the analyst on a miss
TechnicalStage(c) ==
  LET key == technical_key(c.t.service_pair_id)
      tech_data == cache_get(c.fs, now, key)
      c1 == Looked(c, key, tech_data)
  IN IF ~Truthy(tech_data)
     THEN [c1 EXCEPT !.t.pc = "tech_call", !.t.invoked = Append(@, "technical")]
     ELSE PricingStage(Enter([c1 EXCEPT !.t.tech_data = tech_data], "TECHNICAL_DONE"))

\* lines 25-36: the task holds a permit; skip an unmatched item, else form
\* the pair id and enter the state machine
Accept(c) ==
  LET service_a == dict_get(c.t.item, "csp_a_service_name", None)
      service_b == dict_get(c.t.item, "csp_b_service_name", None)
  IN IF ~Truthy(service_b)
     THEN [c EXCEPT !.t.pc = "done", !.t.ret = None]
     ELSE TechnicalStage(Enter([c EXCEPT !.t.service_pair_id = pair_id(service_a.v, service_b.v)],
                               "PENDING"))

(***************************************************************************)
(* Concurrency limits                                                      *)
(***************************************************************************)
\* constants.MAX_CONCURRENT_REQUESTS is 10; the model runs with a smaller
\* number of permits so that more tasks than permits exist.
MAX_CONCURRENT_REQUESTS == 2
\* batch_size of map_services is 20; scaled down likewise.
batch_size == 2
\* the number of runs of main in one behaviour
MaxRuns == 2
\* the number of inference requests that fail in one behaviour
MaxFailures == 2
\* the clock of the directly driven cache stops after this many days
MaxDays == 8
\* days between the end of a run and the start of the next: within the
\* cache's maximum age, or beyond it
Days == {1, max_age_days + 1}
\* --test
TestModes == {FALSE}

\* a faulty semaphore: acquire never waits
acquire_unbounded(value) == TRUE

\* asyncio.Semaphore.acquire returns without waiting iff a permit is left
can_acquire(value) == value > 0

(***************************************************************************)
(* State of the orchestrator                                               *)
(***************************************************************************)
VARIABLES
  pc,                  \* where main is
  run,                 \* the number of the run (0: none started yet)
  args,                \* [clear_cache, test]: the command line of the run
  service_list_a, service_list_b, service_map, items,
  list_calls,          \* get_service_list requests made in this run
  chunks,              \* the _map_batch_services tasks: [pc, chunk, ret]
  map_sem,             \* permits left in map_services' semaphore
  tasks,               \* the process_service_item tasks
  sem,                 \* permits left in main's semaphore
  final_results, synthesis_by_domain, management_summary,
  summary_calls,       \* generate_management_summary requests made in this run
  rendered,            \* what generate_dashboard was handed
  runlog,              \* per run finished since the cache was last cleared:
                       \* [status, results, calls, at, clean]
  failures,            \* inference requests that have failed so far
  produced             \* documents produced by an external call since the cache
                       \* was last cleared: [key, at, n] (n: the n-th for the key)

discVars == <<service_list_a, service_list_b, service_map, items, list_calls>>
mapVars == <<chunks, map_sem>>
pairVars == <<tasks, sem>>
endVars == <<final_results, synthesis_by_domain, management_summary, summary_calls, rendered>>
orchVars == <<pc, run, args, discVars, mapVars, pairVars, endVars, runlog, failures, produced>>

(***************************************************************************)
(* State of the components taken on their own                              *)
(***************************************************************************)
VARIABLES
  coros,     \* coroutines sharing one CacheManager: [pc, data, got, prev, during]
  running,   \* the coroutine the event loop is running (0: none)
  stable,    \* the file system when no set was under way
  gen_pc,    \* where generate_content is: idle, try, sleep, returned, raised
  attempt,   \* its loop variable
  outcomes,  \* what the external calls it has made came to, in order
  result,    \* what it returned, or the exception it raised
  slept,     \* the delays of its calls of asyncio.sleep, in milliseconds
  keyed,     \* the pairs whose cache keys have been formed: arguments and keys
  dash       \* a call of generate_dashboard on its own: arguments and outcome

loopVars == <<coros, running, stable>>
clientVars == <<gen_pc, attempt, outcomes, result, slept>>
pureVars == <<keyed, dash>>
sideVars == <<loopVars, clientVars, pureVars>>
vars == <<files, now, last, orchVars, sideVars>>

\* a request fails: an exception, None or an empty answer
Fails(answer) == answer = Raise \/ ~Truthy(answer)

\* the failed requests are counted, and bounded
Count(answer) ==
  /\ Fails(answer) => failures < MaxFailures
  /\ failures' = failures + (IF Fails(answer) THEN 1 ELSE 0)

\* inference requests in flight
InFlight ==
  (IF pc \in {"await_list_a", "await_list_b", "await_summary"} THEN 1 ELSE 0)
  + Cardinality({j \in 1..Len(chunks) : chunks[j].pc = "call"})
  + Cardinality({i \in 1..Len(tasks) : tasks[i].pc \in {"tech_call", "pricing_call", "synth_call"}})

\* inference requests made so far in this run
RunCalls ==
  LET RECURSIVE sum(_)
      sum(i) == IF i = 0 THEN 0 ELSE Len(tasks[i].invoked) + sum(i - 1)
  IN list_calls + Cardinality({j \in 1..Len(chunks) : chunks[j].pc # "start"})
     + sum(Len(tasks)) + summary_calls

(***************************************************************************)
(* main (src/main.py), phase 1: discovery                                  *)
(***************************************************************************)
\* a cached document whose list field is empty is ignored (lines 111, 124, 138)
\* a faulty look-up: a cached document is taken as it is
ignore_empty_never(doc, field) == doc

ignore_empty(doc, field) ==
  IF Truthy(doc) /\ ~Truthy(dict_get(doc, field, None)) THEN None ELSE doc

has_list(doc, field) == Truthy(doc) /\ Truthy(dict_get(doc, field, None))

\* a faulty test: the lists are not looked at before the mapping
lists_valid_unchecked(list_a, list_b) == TRUE

\* line 144: both service lists are there and hold services
lists_valid(list_a, list_b) == has_list(list_a, "services") /\ has_list(list_b, "services")

\* lines 85-102: parse the command line, clear the cache when asked to.
\* The run starts `days` after the previous one ended (the clock starts
\* with the first run).
StartRun(clear_cache, test, days) ==
  /\ pc \in {"init", "done", "exit", "crashed"}
  /\ run < MaxRuns
  /\ run = 0 => days = 0
  /\ run' = run + 1
  /\ now' = now + days * 24 * 60 * 60
  /\ args' = [clear_cache |-> clear_cache, test |-> test]
  /\ files' = IF clear_cache THEN cache_clear(files) ELSE files
  /\ produced' = IF clear_cache THEN {} ELSE produced
  /\ runlog' = IF clear_cache THEN <<>> ELSE runlog
  /\ service_list_a' = None /\ service_list_b' = None /\ service_map' = None
  /\ items' = <<>> /\ list_calls' = 0
  /\ chunks' = <<>> /\ map_sem' = 0 /\ tasks' = <<>> /\ sem' = 0
  /\ final_results' = <<>> /\ synthesis_by_domain' = JDict(<<>>)
  /\ management_summary' = None /\ summary_calls' = 0 /\ rendered' = None
  /\ pc' = "list_a"
  /\ UNCHANGED <<last, sideVars, failures>>

\* lines 109-116: look provider A's list up, ask the mapper on a miss
LookupListA ==
  /\ pc = "list_a"
  /\ LET cached == ignore_empty(cache_get(files, now, service_list_key(csp_a)), "services") IN
     /\ service_list_a' = cached
     /\ IF ~Truthy(cached)
        THEN pc' = "await_list_a" /\ list_calls' = list_calls + 1
        ELSE pc' = "list_b" /\ UNCHANGED list_calls
  /\ UNCHANGED <<files, now, last, sideVars, failures, run, args, service_list_b, service_map, items,
                 mapVars, pairVars, endVars, runlog, produced>>

\* ServiceMapper.get_service_list: None and exceptions become {"services": []}
get_service_list(answer) ==
  IF answer = None \/ answer = Raise THEN JDict(<<<<"services", JList(<<>>)>>>>) ELSE answer

\* lines 116-120: the list of provider A arrives
ListAReturns(answer) ==
  /\ pc = "await_list_a"
  /\ LET list == get_service_list(answer) IN
     /\ service_list_a' = list
     /\ files' = IF has_list(list, "services")
                 THEN cache_set(files, now, service_list_key(csp_a), list) ELSE files
  /\ pc' = "list_b"
  /\ Count(answer)
  /\ UNCHANGED <<now, last, sideVars, run, args, service_list_b, service_map, items, list_calls,
                 mapVars, pairVars, endVars, runlog, produced>>

\* lines 122-129
LookupListB ==
  /\ pc = "list_b"
  /\ LET cached == ignore_empty(cache_get(files, now, service_list_key(csp_b)), "services") IN
     /\ service_list_b' = cached
     /\ IF ~Truthy(cached)
        THEN pc' = "await_list_b" /\ list_calls' = list_calls + 1
        ELSE pc' = "map" /\ UNCHANGED list_calls
  /\ UNCHANGED <<files, now, last, sideVars, failures, run, args, service_list_a, service_map, items,
                 mapVars, pairVars, endVars, runlog, produced>>

\* lines 129-133
ListBReturns(answer) ==
  /\ pc = "await_list_b"
  /\ LET list == get_service_list(answer) IN
     /\ service_list_b' = list
     /\ files' = IF has_list(list, "services")
                 THEN cache_set(files, now, service_list_key(csp_b), list) ELSE files
  /\ pc' = "map"
  /\ Count(answer)
  /\ UNCHANGED <<now, last, sideVars, run, args, service_list_a, service_map, items, list_calls,
                 mapVars, pairVars, endVars, runlog, produced>>

\* no pair was dropped
NoneDropped ==
  \A i \in 1..Len(tasks) : \A n \in 1..Len(tasks[i].hist) : tasks[i].hist[n] # "DROPPED"

\* the run ends: its record is kept for the comparison of runs (clean: the
\* run went through with no pair dropped and a summary)
LogRun(status, results) ==
  runlog' = Append(runlog, [status |-> status, results |-> results, calls |-> RunCalls,
                            at |-> now,
                            clean |-> status = "done" /\ NoneDropped
                                      /\ Truthy(management_summary)])

\* a faulty loop: the entries after the last full slice get no task
Chunks_full_only(services_a, services_b) ==
  LET n == Len(services_a) \div batch_size IN
  [j \in 1..n |->
     [ pc |-> "start", ret |-> <<>>, services_b |-> services_b, rank |-> 0,
       chunk |-> SubSeq(services_a, (j - 1) * batch_size + 1, j * batch_size) ]]

\* map_services lines 171-177: one task per slice of batch_size entries,
\* each handed the whole of services_b
Chunks(services_a, services_b) ==
  LET n == (Len(services_a) + batch_size - 1) \div batch_size IN
  [j \in 1..n |->
     [ pc |-> "start", ret |-> <<>>, services_b |-> services_b, rank |-> 0,
       chunk |-> SubSeq(services_a, (j - 1) * batch_size + 1,
                        IF j * batch_size < Len(services_a) THEN j * batch_size
                        ELSE Len(services_a)) ]]

\* lines 136-152: look the service map up; on a miss map the two lists, or
\* exit when a list is missing
LookupMap ==
  /\ pc = "map"
  /\ LET cached == ignore_empty(cache_get(files, now, service_map_key), "items") IN
     /\ service_map' = cached
     /\ IF Truthy(cached)
        THEN pc' = "check_map" /\ UNCHANGED <<mapVars, runlog>>
        ELSE IF lists_valid(service_list_a, service_list_b)
             THEN /\ pc' = "await_map"
                  /\ chunks' = Chunks(dict_get(service_list_a, "services", JList(<<>>)).v,
                                      dict_get(service_list_b, "services", JList(<<>>)).v)
                  /\ map_sem' = MAX_CONCURRENT_REQUESTS
                  /\ UNCHANGED runlog
             ELSE /\ pc' = "exit"
                  /\ LogRun("exit", <<>>)
                  /\ UNCHANGED mapVars
  /\ UNCHANGED <<files, now, last, sideVars, failures, run, args, service_list_a, service_list_b, items,
                 list_calls, pairVars, endVars, produced>>

(***************************************************************************)
(* ServiceMapper._map_batch_services (src/pipeline/discovery.py)           *)
(***************************************************************************)
\* get_fallback
get_fallback(service_a) ==
  JDict(<<<<"domain", dict_get(service_a, "domain", JStr(<<"U", "n", "k", "n", "o", "w", "n">>))>>,
          <<"csp_a_service_name",
            dict_get(service_a, "service_name", JStr(<<"U", "n", "k", "n", "o", "w", "n">>))>>,
          <<"csp_a_url", dict_get(service_a, "service_url", JStr(<<>>))>>,
          <<"csp_b_service_name", None>>,
          <<"csp_b_url", None>>>>)

\* a faulty task: a failed call yields nothing
batch_result_no_fallback(chunk, response) ==
  IF response = Raise \/ response = None \/ ~HasKey(response, "items")
  THEN <<>>
  ELSE dict_get(response, "items", None).v

\* lines 123-129: the list a chunk task returns for a response
batch_result(chunk, response) ==
  IF response = Raise \/ response = None \/ ~HasKey(response, "items")
  THEN [i \in 1..Len(chunk) |-> get_fallback(chunk[i])]
  ELSE dict_get(response, "items", None).v

\* lines 97-122: take a permit and send the request (tasks start in the
\* order gather created them)
ChunkStart(j) ==
  /\ pc = "await_map"
  /\ chunks[j].pc = "start"
  /\ \A k \in 1..(j - 1) : chunks[k].pc # "start"
  /\ can_acquire(map_sem)
  /\ map_sem' = map_sem - 1
  /\ chunks' = [chunks EXCEPT ![j].pc = "call"]
  /\ UNCHANGED <<files, now, last, sideVars, failures, pc, run, args, discVars, pairVars, endVars, runlog, produced>>

\* a faulty task: the permit is given back only after a usable response
release_on_success(value, response) ==
  IF response = Raise \/ response = None \/ ~HasKey(response, "items") THEN value ELSE value + 1

\* line 97: leaving `async with semaphore`, by a return or by an exception
release(value, response) == value + 1

\* lines 123-129: the response arrives; the permit is released
ChunkReturns(j, response) ==
  /\ pc = "await_map"
  /\ chunks[j].pc = "call"
  /\ chunks' = [chunks EXCEPT ![j].pc = "done", ![j].ret = batch_result(chunks[j].chunk, response),
                                ![j].rank = Cardinality({k \in 1..Len(chunks) : chunks[k].pc = "done"}) + 1]
  /\ map_sem' = release(map_sem, response)
  /\ Count(response)
  /\ UNCHANGED <<files, now, last, sideVars, pc, run, args, discVars, pairVars, endVars, runlog, produced>>

\* a faulty gather: the lists are taken in the order the tasks finished
Flatten_as_completed(cs) ==
  LET who(r) == CHOOSE j \in 1..Len(cs) : cs[j].rank = r
      RECURSIVE flat(_)
      flat(r) == IF r = 0 THEN <<>> ELSE flat(r - 1) \o cs[who(r)].ret
  IN flat(Len(cs))

\* lines 179-184: [item for sublist in results for item in sublist]
Flatten(cs) ==
  LET RECURSIVE flat(_)
      flat(j) == IF j = 0 THEN <<>> ELSE flat(j - 1) \o cs[j].ret
  IN flat(Len(cs))

\* map_services returns; main lines 145-149
MapReturns ==
  /\ pc = "await_map"
  /\ \A j \in 1..Len(chunks) : chunks[j].pc = "done"
  /\ LET map == JDict(<<<<"items", JList(Flatten(chunks))>>>>) IN
     /\ service_map' = map
     /\ files' = IF has_list(map, "items") THEN cache_set(files, now, service_map_key, map)
                 ELSE files
  /\ pc' = "check_map"
  /\ UNCHANGED <<now, last, sideVars, failures, run, args, service_list_a, service_list_b, items, list_calls,
                 mapVars, pairVars, endVars, runlog, produced>>

(***************************************************************************)
(* main, phases 2-4: one process_service_item task per item                *)
(***************************************************************************)
\* lines 154-173: exit without a usable map; else cut the items in test
\* mode, create the tasks and wait for them
\* a faulty test: main goes on with whatever the mapping gave
no_service_map_unchecked(map) == FALSE

\* line 154: `if not service_map or not service_map.get("items")`
no_service_map(map) == ~has_list(map, "items")

CheckMap ==
  /\ pc = "check_map"
  /\ IF no_service_map(service_map)
     THEN /\ pc' = "exit"
          /\ LogRun("exit", <<>>)
          /\ UNCHANGED <<items, pairVars>>
     ELSE LET all == dict_get(service_map, "items", JList(<<>>)).v
              cut == IF args.test THEN SubSeq(all, 1, IF Len(all) < 4 THEN Len(all) ELSE 4)
                     ELSE all
          IN /\ items' = cut
             /\ tasks' = [i \in 1..Len(cut) |-> NewTask(cut[i])]
             /\ sem' = MAX_CONCURRENT_REQUESTS
             /\ pc' = "await_pairs"
             /\ UNCHANGED runlog
  /\ UNCHANGED <<files, now, last, sideVars, failures, run, args, service_list_a, service_list_b, service_map,
                 list_calls, mapVars, endVars, produced>>

\* a faulty section: the permit is given back only with a pair
Permits_kept_on_drop(before, after, value) ==
  value - (IF before.pc = "start" THEN 1 ELSE 0)
        + (IF after.pc = "done" /\ after.ret # None THEN 1 ELSE 0)

\* the permits after a section of a task: taken at its start, given back
\* when the task has left `async with semaphore`, by a return or by an
\* exception
Permits(before, after, value) ==
  value - (IF before.pc = "start" THEN 1 ELSE 0)
        + (IF after.pc \in {"done", "raised"} THEN 1 ELSE 0)

\* the section c of task i has run
TaskStep(i, c) ==
  /\ tasks' = [tasks EXCEPT ![i] = c.t]
  /\ files' = c.fs
  /\ sem' = Permits(tasks[i], c.t, sem)

\* an external call produced doc for key
Produced(key, doc) ==
  produced' = IF Truthy(doc)
              THEN produced \cup {[key |-> key, at |-> now,
                                   n |-> 1 + Cardinality({e \in produced : e.key = key})]}
              ELSE produced

\* line 24 onwards: the task takes a permit (in the order gather created
\* the tasks) and runs to its first await or to its return
TaskStart(i) ==
  /\ pc = "await_pairs"
  /\ tasks[i].pc = "start"
  /\ \A k \in 1..(i - 1) : tasks[k].pc # "start"
  /\ can_acquire(sem)
  /\ TaskStep(i, Accept([t |-> tasks[i], fs |-> files]))
  /\ UNCHANGED <<now, last, sideVars, failures, pc, run, args, discVars, mapVars, endVars, runlog, produced>>

\* tech_analyst.perform_analysis returns
TechnicalReturns(i, answer) ==
  /\ pc = "await_pairs"
  /\ tasks[i].pc = "tech_call"
  /\ TaskStep(i, TechnicalReturned([t |-> tasks[i], fs |-> files], answer))
  /\ Produced(technical_key(tasks[i].service_pair_id), answer)
  /\ Count(answer)
  /\ UNCHANGED <<now, last, sideVars, pc, run, args, discVars, mapVars, endVars, runlog>>

\* pricing_analyst.perform_analysis returns
PricingReturns(i, answer) ==
  /\ pc = "await_pairs"
  /\ tasks[i].pc = "pricing_call"
  /\ TaskStep(i, PricingReturned([t |-> tasks[i], fs |-> files], answer))
  /\ Produced(pricing_key(tasks[i].service_pair_id), answer)
  /\ Count(answer)
  /\ UNCHANGED <<now, last, sideVars, pc, run, args, discVars, mapVars, endVars, runlog>>

\* synthesizer.synthesize returns
SynthesisReturns(i, answer) ==
  /\ pc = "await_pairs"
  /\ tasks[i].pc = "synth_call"
  /\ TaskStep(i, SynthesisReturned([t |-> tasks[i], fs |-> files], answer))
  /\ Produced(result_key(tasks[i].service_pair_id), answer)
  /\ Count(answer)
  /\ UNCHANGED <<now, last, sideVars, pc, run, args, discVars, mapVars, endVars, runlog>>

(***************************************************************************)
(* main, phases 5-6: management summary and dashboard                      *)
(***************************************************************************)
Uncategorized == <<"U", "n", "c", "a", "t", "e", "g", "o", "r", "i", "z", "e", "d">>

\* a faulty fan-in: the None results are not filtered out
AllResults(ts) == [i \in 1..Len(ts) |-> ts[i].ret]

\* a faulty fan-in: the results are collected last task first
FinalResults_reversed(ts) ==
  LET RECURSIVE keep(_)
      keep(i) == IF i = 0 THEN <<>>
                 ELSE IF ts[i].ret = None THEN keep(i - 1)
                 ELSE <<ts[i].ret>> \o keep(i - 1)
  IN keep(Len(ts))

\* line 175: [res for res in processed_results if res is not None]
FinalResults(ts) ==
  LET RECURSIVE keep(_)
      keep(i) == IF i = 0 THEN <<>>
                 ELSE IF ts[i].ret = None THEN keep(i - 1)
                 ELSE Append(keep(i - 1), ts[i].ret)
  IN keep(Len(ts))

\* a faulty grouping: the domain of the item is not looked at
GroupByDomain_one_bucket(results) ==
  IF Len(results) = 0 THEN JDict(<<>>)
  ELSE JDict(<<<<Uncategorized,
                JList([n \in 1..Len(results) |->
                         dict_get(dict_get(results[n], "result", None), "synthesis", None)])>>>>)

\* lines 179-184: the syntheses of final_results grouped by domain
GroupByDomain(results) ==
  LET RECURSIVE group(_)
      group(n) ==
        IF n = 0 THEN JDict(<<>>)
        ELSE LET g == group(n - 1)
                 domain == dict_get(dict_get(results[n], "map", None), "domain",
                                    JStr(Uncategorized)).v
                 synthesis == dict_get(dict_get(results[n], "result", None), "synthesis", None)
             IN dict_setitem(g, domain,
                             JList(Append(dict_get(g, domain, JList(<<>>)).v, synthesis)))
  IN group(Len(results))

\* lines 173-184: gather returns; the results are filtered and grouped.
\* item["result"]["synthesis"] raises KeyError on a result without it.
\* a faulty join: the first task that ends wakes main
gather_first_completed(ts) == \E i \in 1..Len(ts) : ts[i].pc = "done"

\* line 173: asyncio.gather returns when every task has returned
gather_returns(ts) == \A i \in 1..Len(ts) : ts[i].pc = "done"

Gather ==
  /\ pc = "await_pairs"
  /\ gather_returns(tasks)
  /\ LET results == FinalResults(tasks) IN
     IF \E n \in 1..Len(results) : ~HasKey(dict_get(results[n], "result", None), "synthesis")
     THEN /\ pc' = "crashed"
          /\ LogRun("crashed", <<>>)
          /\ UNCHANGED <<tasks, final_results, synthesis_by_domain>>
     ELSE /\ final_results' = results
          /\ synthesis_by_domain' = GroupByDomain(results)
          /\ tasks' = [i \in 1..Len(tasks) |->
                         IF tasks[i].ret = None THEN tasks[i]
                         ELSE [tasks[i] EXCEPT !.hist = Append(@, "AGGREGATED")]]
          /\ pc' = "summary"
          /\ UNCHANGED runlog
  /\ UNCHANGED <<files, now, last, sideVars, failures, run, args, discVars, mapVars, sem, management_summary,
                 summary_calls, rendered, produced>>

\* lines 187-194: look the summary up, ask the synthesizer on a miss
LookupSummary ==
  /\ pc = "summary"
  /\ LET cached == cache_get(files, now, management_summary_key(args.test)) IN
     /\ management_summary' = cached
     /\ IF ~Truthy(cached)
        THEN pc' = "await_summary" /\ summary_calls' = summary_calls + 1
        ELSE pc' = "render" /\ UNCHANGED summary_calls
  /\ UNCHANGED <<files, now, last, sideVars, failures, run, args, discVars, mapVars, pairVars, final_results,
                 synthesis_by_domain, rendered, runlog, produced>>

\* lines 195-199: the summary arrives; a failed one becomes {}
SummaryReturns(answer) ==
  /\ pc = "await_summary"
  /\ IF Truthy(answer)
     THEN /\ management_summary' = answer
          /\ files' = cache_set(files, now, management_summary_key(args.test), answer)
     ELSE /\ management_summary' = JDict(<<>>)
          /\ UNCHANGED files
  /\ pc' = "render"
  /\ Count(answer)
  /\ UNCHANGED <<now, last, sideVars, run, args, discVars, mapVars, pairVars, final_results,
                 synthesis_by_domain, summary_calls, rendered, runlog, produced>>

(***************************************************************************)
(* DashboardGenerator.generate_dashboard (src/pipeline/visualizer.py)      *)
(***************************************************************************)
\* r["result"][part][field], a number
score(r, part, field) ==
  dict_get(dict_get(dict_get(r, "result", None), part, None), field, None).v[1]

\* sum([r["result"][part][field] for r in rs])
sum_scores(rs, part, field) ==
  LET RECURSIVE sum(_)
      sum(n) == IF n = 0 THEN 0 ELSE sum(n - 1) + score(rs[n], part, field)
  IN sum(Len(rs))

\* a faulty round: the digits after the second are cut off
round2_down(num, den) == (100 * num) \div den

\* round(num / den, 2), in hundredths: to the nearest, a tie to the even one
\* (the quotients of the model are exact in binary where they tie)
round2(num, den) ==
  LET q == (100 * num) \div den
      r == (100 * num) % den
  IN IF 2 * r < den THEN q
     ELSE IF 2 * r > den THEN q + 1
     ELSE IF q % 2 = 0 THEN q ELSE q + 1

\* lines 31-33: the items without a service of provider B
missing_services_list(service_maps) ==
  LET RECURSIVE keep(_)
      keep(n) == IF n = 0 THEN <<>>
                 ELSE IF ~Truthy(dict_get(service_maps[n], "csp_b_service_name", None))
                      THEN Append(keep(n - 1), service_maps[n])
                      ELSE keep(n - 1)
  IN keep(Len(service_maps))

\* a faulty grouping: every pair goes to the group of the first pair
services_by_first_domain(results) ==
  IF Len(results) = 0 THEN JDict(<<>>)
  ELSE JDict(<<<<dict_get(dict_get(results[1], "map", None), "domain", JStr(Uncategorized)).v,
                JList(results)>>>>)

\* lines 63-67: the results grouped by the domain of their item
services_by_domain(results) ==
  LET RECURSIVE group(_)
      group(n) ==
        IF n = 0 THEN JDict(<<>>)
        ELSE LET g == group(n - 1)
                 domain == dict_get(dict_get(results[n], "map", None), "domain",
                                    JStr(Uncategorized)).v
             IN dict_setitem(g, domain, JList(Append(dict_get(g, domain, JList(<<>>)).v, results[n])))
  IN group(Len(results))

\* lines 70-83: the average of a score over the pairs of each domain, in
\* hundredths
domain_average(groups, part, field) ==
  [d \in 1..Len(groups.v) |->
     LET items_of == groups.v[d][2].v
         count == Len(items_of)
     IN <<groups.v[d][1],
          IF count > 0 THEN round2(sum_scores(items_of, part, field), count) ELSE 0>>]

\* the body of generate_dashboard: what it hands to the template, or
\* nothing when there is neither a result nor a missing service
generate_dashboard(a, b, results, service_maps, management_summaries, overarching_summary, output_path) ==
  LET missing == missing_services_list(service_maps)
      total_compared == Len(results)
      groups == services_by_domain(results)
  IN IF Len(results) = 0 /\ Len(missing) = 0
     THEN [t |-> "return", written |-> FALSE]
     ELSE [t |-> "return", written |-> TRUE,
           results |-> results,
           missing_services |-> missing,
           total_services |-> Len(service_maps),
           total_compared |-> total_compared,
           avg_technical_score |->
             IF total_compared # 0
             THEN round2(sum_scores(results, "technical_data", "technical_score"), total_compared)
             ELSE 0,
           avg_cost_score |->
             IF total_compared # 0
             THEN round2(sum_scores(results, "pricing_data", "cost_efficiency_score"), total_compared)
             ELSE 0,
           services_by_domain |-> groups,
           domain_scores_tech |-> domain_average(groups, "technical_data", "technical_score"),
           domain_scores_cost |-> domain_average(groups, "pricing_data", "cost_efficiency_score"),
           management_summaries |-> management_summaries,
           overarching_summary |-> overarching_summary]

\* the exception of a call whose arguments do not fit the parameters
TypeError == [t |-> "raise", v |-> <<"TypeError">>]

\* visualizer.py 18-27: the parameters of generate_dashboard after self
dashboard_params ==
  <<"csp_a", "csp_b", "results", "service_maps", "management_summaries",
    "overarching_summary", "output_path">>

\* a call of generate_dashboard with positional arguments: Python binds
\* them to the parameters, none of which has a default
call_generate_dashboard(arguments) ==
  IF Len(arguments) # Len(dashboard_params) THEN TypeError
  ELSE generate_dashboard(arguments[1], arguments[2], arguments[3].v, arguments[4].v,
                          arguments[5], arguments[6], arguments[7])

\* main.py 204: the name of the page (the time stamp left out)
output_html == <<"p", "u", "b", "l", "i", "c", "/">> \o csp_a \o <<"_">> \o csp_b

\* main.py 206-213: the arguments main passes
dashboard_arguments ==
  <<JStr(csp_a), JStr(csp_b), JList(final_results), JList(items), management_summary,
    JStr(output_html)>>

\* lines 202-215: main calls generate_dashboard with the results, all the
\* items, the summary and the path.  The run is over thereafter, by the
\* return of main or by the exception of the call (kept in rendered.out).
Render ==
  /\ pc = "render"
  /\ rendered' = [results |-> final_results, service_maps |-> items,
                  management_summary |-> management_summary,
                  out |-> call_generate_dashboard(dashboard_arguments)]
  /\ LogRun("done", final_results)
  /\ pc' = "done"
  /\ UNCHANGED <<files, now, last, sideVars, failures, run, args, discVars, mapVars, pairVars, final_results,
                 synthesis_by_domain, management_summary, summary_calls, produced>>

NoFiles == [p \in {} |-> [text |-> <<>>, mtime |-> 0]]
NoOp == [op |-> "none", key |-> <<>>, arg |-> None, ret |-> None]

\* the components on their own are idle
SideInit ==
  /\ coros = <<>> /\ running = 0 /\ stable = NoFiles
  /\ gen_pc = "idle" /\ attempt = 0 /\ outcomes = <<>> /\ result = None /\ slept = <<>>
  /\ keyed = <<>> /\ dash = None

OrchInit ==
  /\ pc = "init" /\ run = 0 /\ args = [clear_cache |-> FALSE, test |-> FALSE]
  /\ service_list_a = None /\ service_list_b = None /\ service_map = None
  /\ items = <<>> /\ list_calls = 0
  /\ chunks = <<>> /\ map_sem = 0 /\ tasks = <<>> /\ sem = 0
  /\ final_results = <<>> /\ synthesis_by_domain = JDict(<<>>)
  /\ management_summary = None /\ summary_calls = 0 /\ rendered = None
  /\ runlog = <<>> /\ failures = 0 /\ produced = {}

\* a first run on an empty cache directory
Init ==
  /\ files = NoFiles
  /\ now = 0
  /\ last = NoOp
  /\ OrchInit
  /\ SideInit

Next ==
  \/ \E clear_cache \in BOOLEAN, test \in TestModes, days \in {0} \cup Days :
       StartRun(clear_cache, test, days)
  \/ LookupListA
  \/ \E answer \in ServiceListAnswers(csp_a) : ListAReturns(answer)
  \/ LookupListB
  \/ \E answer \in ServiceListAnswers(csp_b) : ListBReturns(answer)
  \/ LookupMap
  \/ \E j \in 1..Len(chunks) : ChunkStart(j)
  \/ \E j \in 1..Len(chunks) : \E answer \in BatchAnswers(chunks[j].chunk) : ChunkReturns(j, answer)
  \/ MapReturns
  \/ CheckMap
  \/ \E i \in 1..Len(tasks) : TaskStart(i)
  \/ \E i \in 1..Len(tasks) : \E answer \in TechnicalAnswers(tasks[i].item) :
       TechnicalReturns(i, answer)
  \/ \E i \in 1..Len(tasks) : \E answer \in PricingAnswers(tasks[i].item) :
       PricingReturns(i, answer)
  \/ \E i \in 1..Len(tasks) :
       \E answer \in SynthesisAnswers(tasks[i].service_pair_id, tasks[i].synth_args[1],
                                      tasks[i].synth_args[2], now) :
         SynthesisReturns(i, answer)
  \/ Gather
  \/ LookupSummary
  \/ \E answer \in SummaryAnswers(synthesis_by_domain) : SummaryReturns(answer)
  \/ Render

Spec == Init /\ [][Next]_vars

(***************************************************************************)
(* Properties of the orchestrator (checked under Spec)                     *)
(***************************************************************************)
Range(seq) == {seq[n] : n \in 1..Len(seq)}
Occurs(seq, x) == Cardinality({n \in 1..Len(seq) : seq[n] = x})
Last(seq) == seq[Len(seq)]

\* gather has returned and the results have been filtered
AfterGather == pc \in {"summary", "await_summary", "render", "done"}

Dropped(i) == "DROPPED" \in Range(tasks[i].hist)

\* the entry of task i in final_results
Contribution(i) == JDict(<<<<"map", tasks[i].item>>, <<"result", tasks[i].result_json>>>>)

Path == <<"PENDING", "TECHNICAL_DONE", "PRICING_DONE", "SYNTHESIZED", "AGGREGATED">>
Rank(state) == CHOOSE n \in 1..Len(Path) : Path[n] = state

\* a transition of the pair state machine: one stage forward, or to DROPPED
\* from a state that is not terminal
Transition(a, b) ==
  /\ a \in Range(Path) \ {"AGGREGATED"}
  /\ b = "DROPPED" \/ (b \in Range(Path) /\ Rank(b) = Rank(a) + 1)

C3_NoLaterStage ==
  \A i \in 1..Len(tasks) :
    LET t == tasks[i] IN
    /\ (Len(t.hist) >= 2 /\ t.hist[2] = "DROPPED") =>
         /\ t.invoked = <<"technical">>
         /\ t.sets = <<>>
         /\ Len(t.gets) = 1
    /\ (Len(t.hist) >= 3 /\ t.hist[3] = "DROPPED") =>
         /\ "synthesis" \notin Range(t.invoked)
         /\ result_key(t.service_pair_id) \notin Range(t.sets)
         /\ \A n \in 1..Len(t.gets) : t.gets[n].key # result_key(t.service_pair_id)

\* a finished run with one pair dropped at the technical stage and one at
\* the pricing stage
C3_Witness ==
  /\ pc = "done"
  /\ \E i, k \in 1..Len(tasks) :
       /\ tasks[i].hist = <<"PENDING", "DROPPED">>
       /\ tasks[k].hist = <<"PENDING", "TECHNICAL_DONE", "DROPPED">>
       /\ tasks[k].invoked = <<"technical", "pricing">>

\* C4: when synthesizer.synthesize has been invoked for a pair, the pair has
\* passed TECHNICAL_DONE and PRICING_DONE, both documents are non-empty,
\* each was looked up in the cache and came from a hit or from its analyst,
\* both carry the pair's id, and the call was passed exactly these two.
C4_SynthesisAfterBoth ==
  \A i \in 1..Len(tasks) :
    LET t == tasks[i] IN
    "synthesis" \in Range(t.invoked) =>
      /\ {"TECHNICAL_DONE", "PRICING_DONE"} \subseteq Range(t.hist)
      /\ Truthy(t.tech_data) /\ Truthy(t.pricing_data)
      /\ Len(t.gets) = 3
      /\ t.gets[1].key = technical_key(t.service_pair_id)
      /\ t.gets[2].key = pricing_key(t.service_pair_id)
      /\ t.gets[1].hit \/ "technical" \in Range(t.invoked)
      /\ t.gets[2].hit \/ "pricing" \in Range(t.invoked)
      /\ dict_get(t.tech_data, "service_pair_id", None) = JStr(t.service_pair_id)
      /\ dict_get(t.pricing_data, "service_pair_id", None) = JStr(t.service_pair_id)
      /\ t.synth_args = <<t.tech_data, t.pricing_data>>

\* the synthesizer is running for a pair whose technical document came from
\* the cache and whose pricing document came from the analyst
C4_Witness ==
  \E i \in 1..Len(tasks) :
    /\ tasks[i].pc = "synth_call"
    /\ tasks[i].gets[1].hit /\ ~tasks[i].gets[2].hit
    /\ tasks[i].invoked = <<"pricing", "synthesis">>

C6_SecondRunReplays ==
  (/\ pc = "done"
   /\ Len(runlog) = 2
   /\ failures = 0
   /\ runlog[1].clean
   /\ runlog[2].at - runlog[1].at <= max_age_seconds)
  => /\ runlog[2].calls = 0
     /\ runlog[2].results = runlog[1].results

\* C7: no document key is produced by an external call twice within
\* max_age_seconds (productions counted since the cache was last cleared).
C7_OncePerWindow ==
  \A e1, e2 \in produced :
    (e1.key = e2.key /\ e1.n < e2.n) => e2.at - e1.at > max_age_seconds

\* the three stages of a pair: name, cache key, the state after it
Stages(id) ==
  { [name |-> "technical", key |-> technical_key(id), after |-> "TECHNICAL_DONE"],
    [name |-> "pricing", key |-> pricing_key(id), after |-> "PRICING_DONE"],
    [name |-> "synthesis", key |-> result_key(id), after |-> "SYNTHESIZED"] }

\* C8: for each task and each stage: the stage's key is looked up at most
\* once; the analyst/synthesizer has been invoked iff the lookup missed; after
\* a hit there is neither an invocation nor a cache.set for the stage; after
\* a miss and a success there is exactly one invocation and exactly one
\* cache.set under the stage's key; there is never a set without a success.
\* A pair that missed three times and succeeded has made 3 sets, a pair
\* that hit three times none.
C8_InvokedIffMiss ==
  \A i \in 1..Len(tasks) :
    LET t == tasks[i] IN
    /\ \A s \in Stages(t.service_pair_id) :
         LET looks == {n \in 1..Len(t.gets) : t.gets[n].key = s.key}
             hit == \E n \in looks : t.gets[n].hit
             miss == \E n \in looks : ~t.gets[n].hit
             succeeded == s.after \in Range(t.hist)
         IN /\ Cardinality(looks) <= 1
            /\ Occurs(t.invoked, s.name) > 0 <=> miss
            /\ hit => Occurs(t.invoked, s.name) = 0 /\ Occurs(t.sets, s.key) = 0
            /\ (miss /\ succeeded) =>
                 Occurs(t.invoked, s.name) = 1 /\ Occurs(t.sets, s.key) = 1
            /\ (miss /\ ~succeeded) => Occurs(t.sets, s.key) = 0
    /\ Range(t.sets) \subseteq {s.key : s \in Stages(t.service_pair_id)}
    /\ ("SYNTHESIZED" \in Range(t.hist) /\ \A n \in 1..Len(t.gets) : ~t.gets[n].hit) =>
         Len(t.sets) = 3
    /\ (\A n \in 1..Len(t.gets) : t.gets[n].hit) => Len(t.sets) = 0

\* in one run a pair is served from the cache at all three stages and
\* another pair misses three times and succeeds
C8_Witness ==
  \E i, k \in 1..Len(tasks) :
    /\ Len(tasks[i].gets) = 3 /\ \A n \in 1..3 : tasks[i].gets[n].hit
    /\ tasks[i].invoked = <<>> /\ tasks[i].sets = <<>> /\ tasks[i].ret # None
    /\ Len(tasks[k].gets) = 3 /\ \A n \in 1..3 : ~tasks[k].gets[n].hit
    /\ Len(tasks[k].invoked) = 3 /\ Len(tasks[k].sets) = 3 /\ tasks[k].ret # None

(***************************************************************************)
(* The cache driven directly: any sequence of get, set and clear, with     *)
(* time passing between the calls.                                         *)
(***************************************************************************)
PlainKeys == {<<"k">>, <<"r">>}
\* a key as process_service_item forms it for a service named "a/b"
SlashKey == <<"a", "/", "b">>
CacheKeys == PlainKeys \cup {SlashKey}

ValidDoc == JDict(<<<<"a", JNum(1)>>>>)
\* payloads handed to set: the three invalid ones and valid ones of every type
CachePayloads ==
  { None, JDict(<<>>), JList(<<>>),
    ValidDoc, JList(<<JDict(<<>>), JStr(<<>>)>>), JNum(0) }

\* what a file found in the cache directory may hold: a document written by
\* set, an invalid document, or text that is not JSON (test_get_corrupt_data)
CorruptText == <<Punct("{"), KeyTok("invalid")>>
\* text that is not UTF-8
BinaryText == <<BadByte, Punct("{")>>
InitTexts ==
  { json_dump(ValidDoc), json_dump(JDict(<<>>)), json_dump(None), CorruptText, <<>>, BinaryText }

\* the directory as a run finds it: empty, or holding one file left earlier
InitStores ==
  UNION { [D -> [text : InitTexts, mtime : {0}]] :
            D \in { {}, {get_filepath(<<"k">>)} } }

CacheInit ==
  /\ files \in InitStores
  /\ now = 0
  /\ last = NoOp
  /\ OrchInit
  /\ SideInit

\* cache.set(k, p)
CacheSetOp(k, p) ==
  /\ files' = cache_set(files, now, k, p)
  /\ last' = [op |-> "set", key |-> k, arg |-> p, ret |-> None]
  /\ UNCHANGED <<now, orchVars, sideVars>>

\* cache.get(k)
CacheGetOp(k) ==
  /\ last' = [op |-> "get", key |-> k, arg |-> None, ret |-> cache_get(files, now, k)]
  /\ files' = files_after_get(files, now, k)
  /\ UNCHANGED <<now, orchVars, sideVars>>

\* cache.clear()
CacheClearOp ==
  /\ files' = cache_clear(files)
  /\ last' = [op |-> "clear", key |-> <<>>, arg |-> None, ret |-> None, had |-> DOMAIN files]
  /\ UNCHANGED <<now, orchVars, sideVars>>

\* time passes: a day or a week
Tick(d) ==
  /\ now + d * 24 * 60 * 60 <= MaxDays * 24 * 60 * 60
  /\ now' = now + d * 24 * 60 * 60
  /\ last' = [op |-> "tick", key |-> <<>>, arg |-> None, ret |-> None]
  /\ UNCHANGED <<files, orchVars, sideVars>>

CacheNext ==
  \/ \E k \in CacheKeys, p \in CachePayloads : CacheSetOp(k, p)
  \/ \E k \in CacheKeys : CacheGetOp(k)
  \/ CacheClearOp
  \/ \E d \in {1, 7} : Tick(d)

CacheSpec == CacheInit /\ [][CacheNext]_vars

(***************************************************************************)
(* Properties of the cache (checked under CacheSpec)                       *)
(***************************************************************************)
\* C9: a get that directly follows a set of a valid payload under the same
\* key returns that payload.
C9_SetThenGet ==
  [][(/\ last.op = "set" /\ ~invalid_data(last.arg)
      /\ last'.op = "get" /\ last'.key = last.key)
     => last'.ret = last.arg]_vars

\* C10: a set of None, {} or [] leaves the whole store as it was; a get
\* never returns {} or []; a get of a key that has no file is a miss; a get
\* of a key whose file holds null, {} or [] is a miss.
C10_InvalidNeverStoredNorReturned ==
  [][/\ (last'.op = "set" /\ invalid_data(last'.arg)) => files' = files
     /\ last'.op = "get" =>
          /\ last'.ret = None \/ ~invalid_data(last'.ret)
          /\ get_filepath(last'.key) \notin DOMAIN files => last'.ret = None
          /\ (/\ get_filepath(last'.key) \in DOMAIN files
              /\ json_load(files[get_filepath(last'.key)].text).ok
              /\ invalid_data(json_load(files[get_filepath(last'.key)].text).val))
             => last'.ret = None]_vars

\* the file of key k
FileOf(k) == files[get_filepath(k)]
HasFile(k) == get_filepath(k) \in DOMAIN files
Age(k) == now - FileOf(k).mtime

\* C11: a get of a key whose file is older than max_age_seconds is a miss,
\* whatever the file holds; a get of a key whose file is at most that old
\* and holds a valid document returns the document; after a set of a valid
\* payload that stored, the age of the file is zero.
C11_Expiry ==
  /\ (last.op = "get" /\ HasFile(last.key)) =>
       /\ Age(last.key) > max_age_seconds => last.ret = None
       /\ (/\ Age(last.key) <= max_age_seconds
           /\ decodes(FileOf(last.key).text)
           /\ json_load(FileOf(last.key).text).ok
           /\ ~invalid_data(json_load(FileOf(last.key).text).val))
          => last.ret = json_load(FileOf(last.key).text).val
  /\ (last.op = "set" /\ ~invalid_data(last.arg) /\ last.key \in PlainKeys) =>
       HasFile(last.key) /\ Age(last.key) = 0

\* a get has missed on a valid document that is a day too old
C11_Witness ==
  /\ last.op = "get" /\ HasFile(last.key)
  /\ Age(last.key) = (max_age_days + 1) * 24 * 60 * 60
  /\ FileOf(last.key).text = json_dump(ValidDoc)
  /\ last.ret = None

\* the text of a file is corrupt: not decodable, or not JSON
Corrupt(text) == ~decodes(text) \/ ~json_load(text).ok

\* C12: a get of a key whose file is corrupt is a miss, and raises nothing;
\* after a set of a valid payload (under a key that stores) a get of the
\* key would return the payload.
C12_CorruptIsMiss ==
  /\ (last.op = "get" /\ HasFile(last.key) /\ Corrupt(FileOf(last.key).text)) =>
       last.ret = None
  /\ (last.op = "set" /\ ~invalid_data(last.arg) /\ last.key \in PlainKeys) =>
       cache_get(files, now, last.key) = last.arg

\* an invalid payload has just been set under a key that held a valid
\* entry, and the entry is still served
C10_Witness ==
  /\ last.op = "set" /\ invalid_data(last.arg) /\ last.arg # None
  /\ get_filepath(last.key) \in DOMAIN files
  /\ cache_get(files, now, last.key) = ValidDoc

\* C14: right after a clear a get of any key is a miss; a key that misses
\* goes on missing until a set of that very key; and a set of a valid
\* payload right after a clear (under a key that stores) is returned by get.
C14_ClearEmpties ==
  [][ /\ last'.op = "clear" => \A k \in CacheKeys : cache_get(files', now', k) = None
      /\ \A k \in CacheKeys :
           (cache_get(files, now, k) = None /\ cache_get(files', now', k) # None) =>
             last'.op = "set" /\ last'.key = k
      /\ (last.op = "clear" /\ last'.op = "set" /\ ~invalid_data(last'.arg)
            /\ last'.key \in PlainKeys) =>
             cache_get(files', now', last'.key) = last'.arg ]_vars

\* a clear has removed files and every key misses
C14_Witness ==
  /\ last.op = "clear" /\ last.had # {}
  /\ \A k \in CacheKeys : cache_get(files, now, k) = None

(***************************************************************************)
(* Coroutines sharing the cache on one event loop                          *)
(*                                                                         *)
(* process_service_item looks a key up, awaits the analysis on a miss and  *)
(* sets the answer (main.py 37-47).  Two pairs with the same formatted     *)
(* names share the key.  CacheManager.set is taken apart into the steps    *)
(* it makes on the file: open(filepath, "w") truncates, json.dump writes   *)
(* the text piece by piece, leaving the with block closes.                 *)
(***************************************************************************)
NumCoros == 3
LoopKey == <<"k">>
Doc(n) == JDict(<<<<"a", JNum(n)>>>>)
LoopPayloads == { Doc(1), Doc(2) }

\* a faulty loop: the coroutine is suspended while set writes
yields_in_set(at) == at \in {"await", "done", "dump"}

\* the positions at which a coroutine gives the event loop back: an await,
\* or its end.  get and set are plain functions and hold no await.
yields(at) == at \in {"await", "done"}

\* the event loop runs coroutine i
Runs(i) == running = i \/ running = 0

\* coroutine i has moved to position at
Moved(i, at) == running' = IF yields(at) THEN 0 ELSE i

\* the payloads that sets under way are writing
Writing == { coros[j].data : j \in { n \in 1..Len(coros) : coros[n].pc \in {"dump", "close"} } }

\* cached = cache.get(key)
CoGet(i) ==
  /\ coros[i].pc = "start" /\ Runs(i)
  /\ LET got == cache_get(files, now, LoopKey)
         at == IF Truthy(got) THEN "done" ELSE "await" IN
       /\ coros' = [coros EXCEPT ![i] = [@ EXCEPT !.pc = at, !.got = got,
                       !.prev = cache_get(stable, now, LoopKey), !.during = Writing]]
       /\ Moved(i, at)
  /\ UNCHANGED <<files, now, last, stable, orchVars, clientVars, pureVars>>

\* data = await ...perform_analysis(...), truthy
CoReturns(i, data) ==
  /\ coros[i].pc = "await" /\ Runs(i)
  /\ coros' = [coros EXCEPT ![i] = [@ EXCEPT !.pc = "open", !.data = data]]
  /\ Moved(i, "open")
  /\ UNCHANGED <<files, now, last, stable, orchVars, clientVars, pureVars>>

\* cache.set(key, data) up to open(filepath, "w")
CoOpen(i) ==
  /\ coros[i].pc = "open" /\ Runs(i)
  /\ LET filepath == get_filepath(LoopKey)
         skip == invalid_data(coros[i].data) \/ open_w_fails(filepath)
         at == IF skip THEN "done" ELSE "dump" IN
       /\ files' = IF skip THEN files
                   ELSE [p \in DOMAIN files \cup {filepath} |->
                           IF p = filepath THEN [text |-> <<>>, mtime |-> now] ELSE files[p]]
       /\ coros' = [coros EXCEPT ![i] = [@ EXCEPT !.pc = at, !.pos = 1]]
       /\ Moved(i, at)
  /\ UNCHANGED <<now, last, stable, orchVars, clientVars, pureVars>>

\* json.dump(data, f): the next piece of the text
CoDump(i) ==
  /\ coros[i].pc = "dump" /\ Runs(i)
  /\ LET filepath == get_filepath(LoopKey)
         text == json_dump(coros[i].data)
         pos == coros[i].pos
         old == files[filepath].text
         at == IF pos = Len(text) THEN "close" ELSE "dump" IN
       /\ files' = [files EXCEPT ![filepath].text =
                      IF pos <= Len(old) THEN [old EXCEPT ![pos] = text[pos]]
                      ELSE Append(old, text[pos])]
       /\ coros' = [coros EXCEPT ![i] = [@ EXCEPT !.pc = at, !.pos = pos + 1]]
       /\ Moved(i, at)
  /\ UNCHANGED <<now, last, stable, orchVars, clientVars, pureVars>>

\* the with block is left: the file is closed and set returns
CoClose(i) ==
  /\ coros[i].pc = "close" /\ Runs(i)
  /\ coros' = [coros EXCEPT ![i] = [@ EXCEPT !.pc = "done"]]
  /\ stable' = files
  /\ Moved(i, "done")
  /\ UNCHANGED <<files, now, last, orchVars, clientVars, pureVars>>

LoopInit ==
  /\ files = NoFiles /\ now = 0 /\ last = NoOp
  /\ OrchInit
  /\ coros = [i \in 1..NumCoros |->
                [pc |-> "start", data |-> None, got |-> None, prev |-> None,
                 during |-> {}, pos |-> 1]]
  /\ running = 0
  /\ stable = NoFiles
  /\ gen_pc = "idle" /\ attempt = 0 /\ outcomes = <<>> /\ result = None /\ slept = <<>>
  /\ keyed = <<>> /\ dash = None

LoopNext ==
  \/ \E i \in 1..Len(coros) : CoGet(i)
  \/ \E i \in 1..Len(coros) : \E data \in LoopPayloads : CoReturns(i, data)
  \/ \E i \in 1..Len(coros) : CoOpen(i)
  \/ \E i \in 1..Len(coros) : CoDump(i)
  \/ \E i \in 1..Len(coros) : CoClose(i)

LoopSpec == LoopInit /\ [][LoopNext]_vars

\* C13: whatever a get returned is what the key held before the sets under
\* way at that moment began, or the whole payload of one of those sets:
\* never a miss or a document that comes of a partly written file.
C13_NoPartialRead ==
  \A i \in 1..Len(coros) :
    coros[i].pc # "start" => coros[i].got = coros[i].prev \/ coros[i].got \in coros[i].during

\* three coroutines overlapped: two missed and set different payloads one
\* after the other, the third looked the key up after that and got the later
\* payload whole
C13_Witness ==
  \E i, j, k \in 1..Len(coros) :
    /\ coros[i].pc = "done" /\ coros[j].pc = "done" /\ coros[k].pc = "done"
    /\ coros[j].data = Doc(1) /\ coros[k].data = Doc(2)
    /\ coros[i].data = None /\ coros[i].got = Doc(2)
    /\ stable = files

(***************************************************************************)
(* GeminiClient.generate_content (src/pipeline/gemini.py)                  *)
(***************************************************************************)
\* what one external call comes to: a response, or an exception
Response(parsed, text) == [t |-> "response", parsed |-> parsed, text |-> text]
Raised(e) == [t |-> "raise", v |-> <<e>>]

\* response.text of a response with no text part
NoText == <<[t |-> "none", v |-> <<>>]>>

CallOutcomes ==
  { Response(Doc(1), json_dump(Doc(1))),     \* parsed by the library
    Response(None, json_dump(Doc(2))),       \* not parsed, the text is JSON
    Response(None, json_dump(None)),         \* the text is null
    Response(None, CorruptText),             \* the text is not JSON
    Response(None, NoText),                  \* no text at all
    Raised("APIError"), Raised("ValueError"), Raised("JSONDecodeError"),
    Raised("RuntimeError") }

\* lines 35-53: the try block, for one outcome of the call: the value
\* returned, or the exception raised in it
try_block(outcome) ==
  IF outcome.t = "raise" THEN outcome
  ELSE IF Truthy(outcome.parsed) THEN [t |-> "return", v |-> outcome.parsed]
  ELSE IF outcome.text = NoText THEN Raised("TypeError")
  ELSE IF ~json_load(outcome.text).ok THEN Raised("JSONDecodeError")
  ELSE [t |-> "return", v |-> json_load(outcome.text).val]

\* a faulty except clause: ValueError is left out
caught_no_ValueError(e) == e.v[1] \in {"APIError", "JSONDecodeError"}

\* line 55: except (errors.APIError, ValueError, json.JSONDecodeError)
caught(e) == e.v[1] \in {"APIError", "ValueError", "JSONDecodeError"}

\* a faulty loop: the second failure is the last
gives_up_early(n) == ~(n < 1)

\* line 57: `if attempt < 2` sleeps, else the client gives up
gives_up(n) == ~(n < 2)

\* a faulty delay: the same after every failure
sleep_delay_constant(n) == 100

\* line 58: (2 ** attempt) * 0.1 seconds, in milliseconds
sleep_delay(n) == (2 ^ n) * 100

\* for attempt in range(3)
Begin ==
  /\ gen_pc = "idle"
  /\ gen_pc' = "try" /\ attempt' = 0 /\ outcomes' = <<>> /\ result' = None /\ slept' = <<>>
  /\ UNCHANGED <<files, now, last, orchVars, loopVars, pureVars>>

\* lines 35-61: the call is made and comes to outcome
Attempt(outcome) ==
  /\ gen_pc = "try"
  /\ outcomes' = Append(outcomes, outcome)
  /\ LET r == try_block(outcome) IN
       IF r.t = "return" THEN gen_pc' = "returned" /\ result' = r.v /\ UNCHANGED slept
       ELSE IF ~caught(r) THEN gen_pc' = "raised" /\ result' = r /\ UNCHANGED slept
       ELSE IF gives_up(attempt) THEN gen_pc' = "returned" /\ result' = None /\ UNCHANGED slept
       ELSE /\ gen_pc' = "sleep"
            /\ slept' = Append(slept, sleep_delay(attempt))
            /\ UNCHANGED result
  /\ UNCHANGED <<files, now, last, orchVars, loopVars, pureVars, attempt>>

\* line 58: asyncio.sleep is over, the loop goes round
Wake ==
  /\ gen_pc = "sleep"
  /\ attempt' = attempt + 1
  /\ gen_pc' = "try"
  /\ UNCHANGED <<files, now, last, orchVars, loopVars, pureVars, outcomes, result, slept>>

RetryInit ==
  /\ files = NoFiles /\ now = 0 /\ last = NoOp
  /\ OrchInit
  /\ coros = <<>> /\ running = 0 /\ stable = NoFiles
  /\ gen_pc = "idle" /\ attempt = 0 /\ outcomes = <<>> /\ result = None /\ slept = <<>>
  /\ keyed = <<>> /\ dash = None

RetryNext ==
  \/ Begin
  \/ \E outcome \in CallOutcomes : Attempt(outcome)
  \/ Wake

RetrySpec == RetryInit /\ [][RetryNext]_vars

\* the call succeeded: the try block returned a value
Success(outcome) == try_block(outcome).t = "return"

\* the call failed with one of the three kinds of error of the retry policy
Retryable(outcome) == try_block(outcome).t = "raise" /\ caught(try_block(outcome))

\* C15: as long as every failure is an APIError, a ValueError or a
\* JSONDecodeError, no call follows a success and none a third failure; the
\* client goes on after a first and a second failure; it returns the value
\* of the first success, and None with the third failure.
C15_RetryCount ==
  (\A n \in 1..Len(outcomes) : Success(outcomes[n]) \/ Retryable(outcomes[n])) =>
    /\ Len(outcomes) <= 3
    /\ \A n \in 1..(Len(outcomes) - 1) : Retryable(outcomes[n])
    /\ gen_pc # "raised"
    /\ (Len(outcomes) > 0 /\ Success(outcomes[Len(outcomes)])) =>
         gen_pc = "returned" /\ result = try_block(outcomes[Len(outcomes)]).v
    /\ (Len(outcomes) > 0 /\ Retryable(outcomes[Len(outcomes)])) =>
         IF Len(outcomes) = 3 THEN gen_pc = "returned" /\ result = None
         ELSE gen_pc \in {"sleep", "try"}

\* a failure, then a success: the payload after two calls
C15_Witness ==
  /\ gen_pc = "returned" /\ Len(outcomes) = 2
  /\ outcomes[1] = Raised("APIError") /\ outcomes[2] = Response(Doc(1), json_dump(Doc(1)))
  /\ result = Doc(1)

\* C16: generate_content never raises to its caller.
C16_NeverRaises == gen_pc # "raised"

MaxServices == 5
S3 == <<"S", "3">>
RDS == <<"R", "D", "S">>

\* a catalog entry that carries a domain
FullEntry(domain, name) ==
  JDict(<<<<"service_name", JStr(name)>>, <<"service_url", JStr(<<"u">> \o name)>>,
          <<"domain", JStr(domain)>>>>)

ManyServicesA ==
  <<FullEntry(<<"C">>, EC2), Entry(SNS), FullEntry(<<"S">>, S3), FullEntry(<<"D">>, RDS),
    FullEntry(<<"C">>, Ec2)>>

\* the items of a response that leaves the last entry of the chunk out
ShortItems(chunk) == [i \in 1..(Len(chunk) - 1) |-> BestMatch(chunk[i])]

\* GeminiClient.generate_content for one chunk: beside BatchAnswers, a
\* response with other fields than items, and one with an item too few
MapAnswers(chunk) ==
  BatchAnswers(chunk)
    \cup { JDict(<<<<"error", JStr(<<"e">>)>>>>), JDict(<<<<"items", JList(ShortItems(chunk))>>>>) }

\* main has the two lists and comes to the service map with nothing cached
MapInit ==
  /\ files = NoFiles /\ now = 0 /\ last = NoOp
  /\ SideInit
  /\ pc = "map" /\ run = 1 /\ args = [clear_cache |-> FALSE, test |-> FALSE]
  /\ \E n \in 0..MaxServices :
       service_list_a = JDict(<<<<"services", JList(SubSeq(ManyServicesA, 1, n))>>>>)
  /\ service_list_b = JDict(<<<<"services", JList(ServicesB)>>>>)
  /\ service_map = None
  /\ items = <<>> /\ list_calls = 0
  /\ chunks = <<>> /\ map_sem = 0 /\ tasks = <<>> /\ sem = 0
  /\ final_results = <<>> /\ synthesis_by_domain = JDict(<<>>)
  /\ management_summary = None /\ summary_calls = 0 /\ rendered = None
  /\ runlog = <<>> /\ failures = 0 /\ produced = {}

MapNext ==
  \/ LookupMap
  \/ \E j \in 1..Len(chunks) : ChunkStart(j)
  \/ \E j \in 1..Len(chunks) : \E answer \in MapAnswers(chunks[j].chunk) : ChunkReturns(j, answer)
  \/ MapReturns

MapSpec == MapInit /\ [][MapNext]_vars

\* the arguments of map_services
services_a == dict_get(service_list_a, "services", JList(<<>>)).v
services_b == dict_get(service_list_b, "services", JList(<<>>)).v

\* the chunks of the tasks, one after the other
Concat(cs) ==
  LET RECURSIVE cat(_)
      cat(j) == IF j = 0 THEN <<>> ELSE cat(j - 1) \o cs[j].chunk
  IN cat(Len(cs))

\* the requests map_services has sent
Sent == { j \in 1..Len(chunks) : chunks[j].pc \in {"call", "done"} }

\* C18: map_services makes ceil(N / batch_size) tasks, each of which sends
\* one request: the chunks are at most batch_size long, all but the last
\* exactly so, and one after the other they are the list services_a; each
\* task holds the whole of services_b; when map_services has returned,
\* every task has sent its request.
C18_Chunking ==
  pc \in {"await_map", "check_map"} =>
    /\ (Len(chunks) - 1) * batch_size < Len(services_a)
    /\ Len(services_a) <= Len(chunks) * batch_size
    /\ \A j \in 1..Len(chunks) :
         /\ Len(chunks[j].chunk) >= 1 /\ Len(chunks[j].chunk) <= batch_size
         /\ j < Len(chunks) => Len(chunks[j].chunk) = batch_size
         /\ chunks[j].services_b = services_b
    /\ Concat(chunks) = services_a
    /\ pc = "check_map" => Cardinality(Sent) = Len(chunks)

\* five entries have been mapped in three requests
C18_Witness ==
  /\ pc = "check_map" /\ Len(services_a) = MaxServices
  /\ Len(chunks) = 3 /\ Cardinality(Sent) = 3
  /\ Len(chunks[3].chunk) = 1

\* the items map_services returned
mapped_services == dict_get(service_map, "items", JList(<<>>)).v

\* C19: map_services returns as many items as it was given entries, the
\* i-th item being that of the i-th entry.
C19_OnePerEntry ==
  (pc = "check_map" /\ Len(chunks) > 0) =>
    /\ Len(mapped_services) = Len(services_a)
    /\ \A i \in 1..Len(mapped_services) :
         dict_get(mapped_services[i], "csp_a_service_name", None)
           = dict_get(services_a[i], "service_name", None)

\* the call of a chunk task failed with this response
FailedResponses == { None, Raise, JDict(<<>>), JDict(<<<<"error", JStr(<<"e">>)>>>>) }

\* the item of entry e is its fallback: no match, and the name, the url and
\* the domain of the entry
IsFallback(item, e) ==
  /\ HasKey(item, "csp_b_service_name") /\ dict_get(item, "csp_b_service_name", Raise) = None
  /\ HasKey(item, "csp_b_url") /\ dict_get(item, "csp_b_url", Raise) = None
  /\ dict_get(item, "csp_a_service_name", None) = dict_get(e, "service_name", None)
  /\ dict_get(item, "csp_a_url", None) = dict_get(e, "service_url", None)
  /\ HasKey(e, "domain") => dict_get(item, "domain", None) = dict_get(e, "domain", None)

\* C20: when the call of a chunk comes back None, without items or with an
\* exception, the task returns one fallback per entry of the chunk, in the
\* order of the chunk; no other task is touched; and map_services returns
\* the lists of the tasks one after the other.
C20_Fallback ==
  [][ /\ \A j \in 1..Len(chunks) : \A response \in FailedResponses :
           ChunkReturns(j, response) =>
             /\ Len(chunks'[j].ret) = Len(chunks[j].chunk)
             /\ \A i \in 1..Len(chunks[j].chunk) : IsFallback(chunks'[j].ret[i], chunks[j].chunk[i])
             /\ \A k \in 1..Len(chunks) : k # j => chunks'[k] = chunks[k]
      /\ (pc = "await_map" /\ pc' = "check_map") =>
           /\ mapped_services' = Flatten(chunks)
           /\ \A j \in 1..Len(chunks) :
                SubSeq(mapped_services', Len(Flatten(SubSeq(chunks, 1, j - 1))) + 1,
                       Len(Flatten(SubSeq(chunks, 1, j)))) = chunks[j].ret ]_vars

\* of three chunks the second failed: its two entries are in the output as
\* fallbacks, between the matches of the first and of the third
C20_Witness ==
  /\ pc = "check_map" /\ Len(chunks) = 3 /\ Len(mapped_services) = MaxServices
  /\ \A i \in 3..4 : IsFallback(mapped_services[i], services_a[i])
  /\ \A i \in {1, 2, 5} : mapped_services[i] = BestMatch(services_a[i])

\* the number of items the tasks before task j returned
Offset(j) ==
  LET RECURSIVE sum(_)
      sum(k) == IF k = 0 THEN 0 ELSE sum(k - 1) + Len(chunks[k].ret)
  IN sum(j - 1)

\* C21: whatever the order in which the chunk tasks finished, the items
\* map_services returns are the lists of the tasks in the order of the
\* chunks: the i-th item of task j stands at place Offset(j) + i, so that
\* the items of task j all come before those of task j + 1 and in the order
\* the task returned them.
C21_InputOrder ==
  (pc = "check_map" /\ Len(chunks) > 0) =>
    /\ Len(mapped_services) = Offset(Len(chunks) + 1)
    /\ \A j \in 1..Len(chunks) : \A i \in 1..Len(chunks[j].ret) :
         mapped_services[Offset(j) + i] = chunks[j].ret[i]

\* the second task finished first and the first last, and the five items
\* are in the order of the entries
C21_Witness ==
  /\ pc = "check_map" /\ Len(chunks) = 3
  /\ chunks[2].rank = 1 /\ chunks[1].rank = 3
  /\ Len(mapped_services) = MaxServices
  /\ \A i \in 1..MaxServices : mapped_services[i] = BestMatch(services_a[i])

\* the event loop runs a task that can run, and every request comes back
MapLiveSpec == MapInit /\ [][MapNext]_vars /\ WF_vars(MapNext)

\* the chunk requests in flight
CallsInFlight == Cardinality({ j \in 1..Len(chunks) : chunks[j].pc = "call" })

\* C22: while map_services runs, at most MAX_CONCURRENT_REQUESTS chunk
\* requests are in flight and the permits not in use are in the semaphore;
\* a task sends its request once (having sent it, it never is at its start
\* again, and having returned, it stays so); a request that comes back, as
\* items, as a fallback or as an exception, gives its permit back; and
\* map_services comes to return with every chunk done.
C22_PermitsAndProgress ==
  /\ [](pc = "await_map" =>
          /\ CallsInFlight <= MAX_CONCURRENT_REQUESTS
          /\ map_sem = MAX_CONCURRENT_REQUESTS - CallsInFlight)
  /\ [][ (pc = "await_map" /\ pc' = "await_map") =>
           \A j \in 1..Len(chunks) :
             /\ chunks[j].pc = "call" => chunks'[j].pc \in {"call", "done"}
             /\ chunks[j].pc = "done" => chunks'[j] = chunks[j]
             /\ (chunks[j].pc = "call" /\ chunks'[j].pc = "done") => map_sem' = map_sem + 1 ]_vars
  /\ (pc = "await_map") ~> (pc = "check_map" /\ \A j \in 1..Len(chunks) : chunks[j].pc = "done")

\* three chunks on two permits, two of the requests failed: all three are
\* done and the permits are back
C22_Witness ==
  /\ pc = "check_map" /\ Len(chunks) > MAX_CONCURRENT_REQUESTS
  /\ \A j \in 1..Len(chunks) : chunks[j].pc = "done"
  /\ failures = 2
  /\ map_sem = MAX_CONCURRENT_REQUESTS

(***************************************************************************)
(* Further properties of a run of main                                     *)
(***************************************************************************)
\* the item has no service of provider B: absent, None or empty
Unmatched(item) == ~Truthy(dict_get(item, "csp_b_service_name", None))

\* items without a match, as the mapper's fallback and its mock data shape them
UnmatchedItems ==
  { get_fallback(Entry(SNS)),
    JDict(<<<<"domain", JStr(<<"D">>)>>, <<"csp_a_service_name", JStr(SNS)>>,
            <<"csp_a_url", JStr(<<"u">>)>>, <<"csp_b_service_name", JStr(<<>>)>>>>),
    JDict(<<<<"domain", JStr(<<"D">>)>>, <<"csp_a_service_name", JStr(SNS)>>,
            <<"csp_a_url", JStr(<<"u">>)>>>>) }

\* C23: the task of an unmatched item returns None without entering the
\* pair state machine, without a cache.get, a cache.set or a call of an
\* analyst or the synthesizer (for the fallback items of the run, and for
\* an item whose name of provider B is absent or empty); once main has
\* called the renderer, the item is among the items handed over, the
\* renderer lists it among the missing services, and no entry of
\* final_results (the pairs that are grouped by domain) is made of it.
C23_UnmatchedNeverEnters ==
  /\ \A item \in UnmatchedItems :
       Accept([t |-> NewTask(item), fs |-> files])
         = [t |-> [NewTask(item) EXCEPT !.pc = "done"], fs |-> files]
  /\ \A i \in 1..Len(tasks) :
       (Unmatched(tasks[i].item) /\ tasks[i].pc = "done") =>
         /\ tasks[i].ret = None /\ tasks[i].hist = <<>>
         /\ tasks[i].gets = <<>> /\ tasks[i].sets = <<>> /\ tasks[i].invoked = <<>>
  /\ pc = "done" =>
       \A i \in 1..Len(tasks) :
         Unmatched(tasks[i].item) =>
           /\ tasks[i].item \in Range(rendered.service_maps)
           /\ rendered.out.t = "return"
           /\ rendered.out.written
           /\ tasks[i].item \in Range(rendered.out.missing_services)
           /\ \A n \in 1..Len(final_results) :
                dict_get(final_results[n], "map", None) # tasks[i].item

(***************************************************************************)
(* The cache keys of process_service_item, for any providers and names     *)
(***************************************************************************)
aws == <<"a", "w", "s">>
ComputeEngine == <<"C", " ", "E">>
compute_engine == <<"c", " ", "e">>
ComputeTabEngine == <<"C", "\t", "E">>

KeyProviders == { csp_a, aws, csp_b }
KeyNames == { ComputeEngine, compute_engine, ComputeTabEngine, EC2 }

\* lines 32-39, 50, 62: the keys process_service_item forms
FormKeys(provider_a, a, provider_b, b) ==
  /\ Len(keyed) < 2
  /\ LET id == service_pair_id(provider_a, a, provider_b, b) IN
     keyed' = Append(keyed,
                [ provider_a |-> provider_a, a |-> a, provider_b |-> provider_b, b |-> b,
                  formatted_a |-> format_service_name(provider_a, a),
                  formatted_b |-> format_service_name(provider_b, b),
                  technical |-> technical_key(id), pricing |-> pricing_key(id),
                  result |-> result_key(id) ])
  /\ UNCHANGED <<files, now, last, orchVars, loopVars, clientVars, dash>>

\* another two pairs
Forget ==
  /\ Len(keyed) = 2
  /\ keyed' = <<>>
  /\ UNCHANGED <<files, now, last, orchVars, loopVars, clientVars, dash>>

KeyInit ==
  /\ files = NoFiles /\ now = 0 /\ last = NoOp
  /\ OrchInit
  /\ SideInit

KeyNext ==
  \/ \E provider_a \in KeyProviders, a \in KeyNames, provider_b \in KeyProviders, b \in KeyNames :
       FormKeys(provider_a, a, provider_b, b)
  \/ Forget

KeySpec == KeyInit /\ [][KeyNext]_vars

\* the keys of two pairs differ, kind by kind
KeysDiffer(x, y) ==
  /\ x.technical # y.technical /\ x.pricing # y.pricing /\ x.result # y.result

PlainName(provider) == \A i \in 1..Len(provider) : provider[i] \notin {" ", "_"}

Whitespace == {" ", "\t"}

\* the case-folded string with every white space replaced by an underscore
normalized(s) == [i \in 1..Len(s) |-> IF s[i] \in Whitespace THEN "_" ELSE lower_char(s[i])]

\* C25: format_service_name(csp, name) is the case-folded csp_name with
\* every white space replaced by an underscore, so that names which differ
\* only in case or in the white space between their words give the same part.
C25_Normalized ==
  /\ \A n \in 1..Len(keyed) :
       /\ keyed[n].formatted_a = normalized(keyed[n].provider_a \o <<"_">> \o keyed[n].a)
       /\ keyed[n].formatted_b = normalized(keyed[n].provider_b \o <<"_">> \o keyed[n].b)
  /\ \A m, n \in 1..Len(keyed) :
       (normalized(keyed[m].provider_a) = normalized(keyed[n].provider_a)
          /\ normalized(keyed[m].a) = normalized(keyed[n].a))
       => keyed[m].formatted_a = keyed[n].formatted_a

\* the tasks of the matched items
Matched == { i \in 1..Len(tasks) : ~Unmatched(tasks[i].item) }

\* the run began on an empty cache
FreshCache == run = 1 \/ args.clear_cache

\* C26: after gather, in a run on a fresh cache in which no stage of any
\* pair failed, final_results holds one entry per matched item, made of the
\* item and its result, at the place the item has among the matched items;
\* so there is no entry for an unmatched item.
C26_OnePerMatchedItem ==
  (AfterGather /\ FreshCache /\ \A i \in 1..Len(tasks) : ~Dropped(i)) =>
    /\ Len(final_results) = Cardinality(Matched)
    /\ \A i \in Matched :
         LET n == Cardinality({ k \in Matched : k <= i }) IN
           /\ dict_get(final_results[n], "map", None) = items[i]
           /\ dict_get(final_results[n], "result", None) = tasks[i].result_json
    /\ \A n \in 1..Len(final_results) : ~Unmatched(dict_get(final_results[n], "map", None))

\* a first run whose second chunk request failed: the first two items are
\* matched and make the two entries, the third is a fallback and makes none
C26_Witness ==
  /\ AfterGather /\ run = 1 /\ \A i \in 1..Len(tasks) : ~Dropped(i)
  /\ Len(items) = 3 /\ Unmatched(items[3]) /\ Matched = {1, 2}
  /\ Len(final_results) = 2
  /\ dict_get(final_results[1], "map", None) = items[1]
  /\ dict_get(final_results[2], "map", None) = items[2]

\* the domain group of an entry of final_results
DomainOf(entry) ==
  IF HasKey(dict_get(entry, "map", None), "domain")
  THEN dict_get(dict_get(entry, "map", None), "domain", None).v
  ELSE Uncategorized

\* the entries of a sequence that belong to domain d, in order
OfDomain(entries, d) ==
  LET RECURSIVE keep(_)
      keep(n) == IF n = 0 THEN <<>>
                 ELSE IF DomainOf(entries[n]) = d THEN Append(keep(n - 1), entries[n])
                 ELSE keep(n - 1)
  IN keep(Len(entries))

\* the names of the groups of a dict of groups
GroupNames(groups) == { groups.v[g][1] : g \in 1..Len(groups.v) }

\* C27: after gather, the domain groups are named by the domains of the
\* entries of final_results ("Uncategorized" for an item without the
\* field), each name once; the group of a domain holds the syntheses of
\* exactly the entries of that domain, each once and in order, so that the
\* groups partition final_results and none is empty; a dropped or unmatched
\* pair returned None and final_results has one entry per pair that did
\* not, so such a pair is in no group.
C27_GroupsPartition ==
  AfterGather =>
    /\ GroupNames(synthesis_by_domain) = { DomainOf(final_results[n]) : n \in 1..Len(final_results) }
    /\ \A g, h \in 1..Len(synthesis_by_domain.v) :
         synthesis_by_domain.v[g][1] = synthesis_by_domain.v[h][1] => g = h
    /\ \A g \in 1..Len(synthesis_by_domain.v) :
         LET members == OfDomain(final_results, synthesis_by_domain.v[g][1])
             group == synthesis_by_domain.v[g][2].v
         IN /\ Len(group) > 0
            /\ Len(group) = Len(members)
            /\ \A n \in 1..Len(group) :
                 group[n] = dict_get(dict_get(members[n], "result", None), "synthesis", None)
    /\ \A i \in 1..Len(tasks) :
         (Dropped(i) \/ Unmatched(tasks[i].item)) => tasks[i].ret = None
    /\ Len(final_results) = Cardinality({ i \in 1..Len(tasks) : tasks[i].ret # None })

\* three pairs were processed: two are in the group of their domain, the
\* one whose item has no domain is in Uncategorized
C27_Witness ==
  /\ AfterGather /\ Len(final_results) = 3
  /\ GroupNames(synthesis_by_domain) = { <<"C">>, Uncategorized }
  /\ Len(dict_get(synthesis_by_domain, <<"C">>, None).v) = 2
  /\ Len(dict_get(synthesis_by_domain, Uncategorized, None).v) = 1

(***************************************************************************)
(* generate_dashboard on any results                                       *)
(***************************************************************************)
MaxResults == 3
TechnicalScores == { 8, 9, 10 }
CostScores == { 7, 8 }

\* an item without a service of provider B
ItemMissing(a) ==
  JDict(<<<<"domain", JStr(<<"C">>)>>, <<"csp_a_service_name", JStr(a)>>,
          <<"csp_a_url", JStr(<<"u">>)>>, <<"csp_b_service_name", None>>,
          <<"csp_b_url", None>>>>)

RenderItems == { Item(<<"C">>, EC2, GCE), Item(<<"D">>, S3, GCE), ItemNoDomain(SNS, PubSub) }

\* main.py 74-77: what process_service_item returns for a pair, with the
\* scores the renderer reads
Scored(item, technical_score, cost_efficiency_score) ==
  JDict(<<<<"map", item>>,
          <<"result",
            JDict(<<<<"technical_data", JDict(<<<<"technical_score", JNum(technical_score)>>>>)>>,
                    <<"pricing_data",
                      JDict(<<<<"cost_efficiency_score", JNum(cost_efficiency_score)>>>>)>>,
                    <<"synthesis", JDict(<<>>)>>>>)>>>>)

RenderResults ==
  { Scored(item, t, c) : item \in RenderItems, t \in TechnicalScores, c \in CostScores }

\* the items of the results
MapsOf(results) == [n \in 1..Len(results) |-> dict_get(results[n], "map", None)]

\* a call of generate_dashboard with seven arguments: the results, and as
\* service maps their items and the items without a match
Generate(results, missing) ==
  /\ dash = None
  /\ dash' = [ results |-> results,
               service_maps |-> MapsOf(results) \o missing,
               out |-> call_generate_dashboard(
                         <<JStr(csp_a), JStr(csp_b), JList(results),
                           JList(MapsOf(results) \o missing), JDict(<<>>), JDict(<<>>),
                           JStr(output_html)>>) ]
  /\ UNCHANGED <<files, now, last, orchVars, loopVars, clientVars, keyed>>

\* the page is looked at no longer
Discard ==
  /\ dash # None
  /\ dash' = None
  /\ UNCHANGED <<files, now, last, orchVars, loopVars, clientVars, keyed>>

RenderInit ==
  /\ files = NoFiles /\ now = 0 /\ last = NoOp
  /\ OrchInit
  /\ SideInit

RenderNext ==
  \/ \E n \in 0..MaxResults, missing \in { <<>>, <<ItemMissing(EC2)>> } :
       \E results \in [1..n -> RenderResults] : Generate(results, missing)
  \/ Discard

RenderSpec == RenderInit /\ [][RenderNext]_vars

\* a page was made
Written == dash # None /\ dash.out.t = "return" /\ dash.out.written

\* the hundredths avg are the quotient sum / count exactly
ExactMean(avg, sum, count) == avg * count = 100 * sum

\* the hundredths avg are the nearest to the quotient sum / count
NearestMean(avg, sum, count) ==
  LET diff == avg * count - 100 * sum IN
    /\ 2 * diff <= count
    /\ 2 * diff >= 0 - count

\* the averages of every domain and of the run are Mean of the sums and
\* the counts of the pairs
Averages(Mean(_, _, _)) ==
  LET out == dash.out
      groups == out.services_by_domain.v
  IN /\ \A d \in DOMAIN groups :
          LET members == OfDomain(dash.results, groups[d][1]) IN
            /\ out.domain_scores_tech[d][1] = groups[d][1]
            /\ out.domain_scores_cost[d][1] = groups[d][1]
            /\ Len(members) > 0
            /\ Mean(out.domain_scores_tech[d][2],
                    sum_scores(members, "technical_data", "technical_score"), Len(members))
            /\ Mean(out.domain_scores_cost[d][2],
                    sum_scores(members, "pricing_data", "cost_efficiency_score"), Len(members))
     /\ Len(dash.results) > 0 =>
          /\ Mean(out.avg_technical_score,
                  sum_scores(dash.results, "technical_data", "technical_score"),
                  Len(dash.results))
          /\ Mean(out.avg_cost_score,
                  sum_scores(dash.results, "pricing_data", "cost_efficiency_score"),
                  Len(dash.results))
     /\ Len(dash.results) = 0 => out.avg_technical_score = 0 /\ out.avg_cost_score = 0

\* C28, as the specification states it: the averages of every domain and
\* of the run are the sums of the scores divided by the counts.
C28_ExactAverages ==
  /\ dash # None => dash.out.t = "return"
  /\ Written => Averages(ExactMean)

\* C28, amended: generate_dashboard never raises on well-formed results (no
\* division by zero); on the page it makes, the averages of every domain
\* and of the run are the sums of the scores divided by the counts and
\* rounded to two decimals, and the run-wide averages are 0 when no pair was
\* processed.
C28_RoundedAverages ==
  /\ dash # None => dash.out.t = "return"
  /\ Written => Averages(NearestMean)

\* technical scores 8 and 10 in one domain gave 9.0, and three pairs gave
\* an average that is not a whole number of hundredths
C28_Witness ==
  /\ Written
  /\ Len(dash.results) = 3
  /\ \E d \in DOMAIN dash.out.services_by_domain.v :
       /\ Len(dash.out.services_by_domain.v[d][2].v) = 2
       /\ { score(r, "technical_data", "technical_score") :
              r \in Range(dash.out.services_by_domain.v[d][2].v) } = { 8, 10 }
       /\ dash.out.domain_scores_tech[d][2] = 900
  /\ (100 * sum_scores(dash.results, "technical_data", "technical_score")) % 3 # 0

\* no pair was processed and an item had no match: the averages are 0
C28_WitnessNoPairs ==
  /\ Written /\ Len(dash.results) = 0
  /\ dash.out.avg_technical_score = 0 /\ dash.out.avg_cost_score = 0

(***************************************************************************)
(* A run of main on the cache two earlier runs left                        *)
(***************************************************************************)
\* The first run stored both service lists and failed at the mapping; the
\* second, max_age_days later, read the lists from the cache, stored the
\* service map and ended before a pair result was stored.
WarmFiles ==
  LET list_a == JDict(<<<<"services", JList(ServicesA)>>>>)
      list_b == JDict(<<<<"services", JList(ServicesB)>>>>)
      map == JDict(<<<<"items", JList([i \in 1..Len(ServicesA) |-> BestMatch(ServicesA[i])])>>>>)
      first == cache_set(cache_set(NoFiles, 0, service_list_key(csp_a), list_a),
                         0, service_list_key(csp_b), list_b)
  IN cache_set(first, max_age_seconds, service_map_key, map)

WarmInit ==
  /\ files = WarmFiles /\ now = max_age_seconds /\ last = NoOp
  /\ pc = "init" /\ run = MaxRuns - 1 /\ args = [clear_cache |-> FALSE, test |-> FALSE]
  /\ service_list_a = None /\ service_list_b = None /\ service_map = None
  /\ items = <<>> /\ list_calls = 0
  /\ chunks = <<>> /\ map_sem = 0 /\ tasks = <<>> /\ sem = 0
  /\ final_results = <<>> /\ synthesis_by_domain = JDict(<<>>)
  /\ management_summary = None /\ summary_calls = 0 /\ rendered = None
  /\ runlog = <<>> /\ failures = 0 /\ produced = {}
  /\ SideInit

WarmSpec == WarmInit /\ [][Next]_vars

\* main is past the look-up of the service map (lines 136-152)
PastMapLookup ==
  pc \notin {"init", "list_a", "await_list_a", "list_b", "await_list_b", "map"}

\* neither list resolved, from the cache or from discovery
BothListsFailed ==
  /\ ~has_list(service_list_a, "services")
  /\ ~has_list(service_list_b, "services")

\* the run ended at sys.exit(1) and nothing of the later phases took place
FatalBeforeAnalysis ==
  /\ pc = "exit"
  /\ tasks = <<>> /\ final_results = <<>>
  /\ summary_calls = 0 /\ management_summary = None
  /\ rendered = None

\* C29, as the specification states it: when both service lists fail to
\* resolve the run is fatal, whatever the cache holds.
C29_FatalWhateverCached ==
  (PastMapLookup /\ BothListsFailed) => FatalBeforeAnalysis

\* C29, amended: when both service lists fail to resolve and the cache
\* holds no usable service map, the run is fatal: the process exits
\* non-zero and no per-pair analysis, summary generation or rendering takes
\* place, whatever else the cache holds.
C29_FatalUnlessMapCached ==
  (PastMapLookup /\ BothListsFailed /\ ~has_list(service_map, "items")) => FatalBeforeAnalysis

\* both lists and the map had expired in the cache, discovery failed
\* twice, and the run ended at sys.exit(1)
C29_Witness ==
  /\ pc = "exit" /\ BothListsFailed /\ ~Truthy(service_map)
  /\ DOMAIN files = DOMAIN WarmFiles
  /\ list_calls = 2
  /\ FatalBeforeAnalysis

\* both lists had expired and discovery failed twice, but the map was
\* still in the cache: the pairs were analysed
C29_ProceedsOnCachedMap ==
  /\ BothListsFailed /\ list_calls = 2
  /\ pc = "await_pairs" /\ Len(tasks) = Len(ServicesA)

\* main has called the renderer with the pairs that succeeded (line 206)
RendererCalled ==
  /\ rendered # None
  /\ rendered.results = final_results
  /\ rendered.service_maps = items

\* the renderer took them and returned
Reported ==
  /\ RendererCalled
  /\ rendered.out.t = "return"

\* C30: a run that obtained a non-empty service map is not over before
\* the report renderer has been invoked with the pairs that succeeded,
\* whichever stages failed and whether or not the summary was generated:
\* when main has come to its end, the renderer has taken the pairs and has
\* returned (a run that is over takes no further step, so an invocation
\* that is to happen eventually has happened by then).
C30_ReportedAtEnd == (pc = "done" /\ Len(items) > 0) => Reported

\* main does come to its call of the renderer in every run that ends there
CalledAtEnd == (pc = "done" /\ Len(items) > 0) => RendererCalled

(***************************************************************************)
(* main from the service map to the pair tasks (lines 154-171)             *)
(***************************************************************************)
\* the service maps of n items, each item matched or a fallback
ServiceMaps(n) ==
  { JDict(<<<<"items", JList(its)>>>>) :
      its \in { f \in [1..n -> { BestMatch(e) : e \in Range(ManyServicesA) }
                                 \cup { get_fallback(e) : e \in Range(ManyServicesA) }] :
                  \A i \in 1..n : dict_get(f[i], "csp_a_service_name", None)
                                    = dict_get(ManyServicesA[i], "service_name", None) } }

CutInit ==
  /\ files = NoFiles /\ now = 0 /\ last = NoOp
  /\ SideInit
  /\ pc = "check_map" /\ run = 1
  /\ \E test \in BOOLEAN : args = [clear_cache |-> FALSE, test |-> test]
  /\ service_list_a = None /\ service_list_b = None
  /\ \E n \in 0..MaxServices : service_map \in ServiceMaps(n)
  /\ items = <<>> /\ list_calls = 0
  /\ chunks = <<>> /\ map_sem = 0 /\ tasks = <<>> /\ sem = 0
  /\ final_results = <<>> /\ synthesis_by_domain = JDict(<<>>)
  /\ management_summary = None /\ summary_calls = 0 /\ rendered = None
  /\ runlog = <<>> /\ failures = 0 /\ produced = {}

CutNext == CheckMap

CutSpec == CutInit /\ [][CutNext]_vars

\* main has made the pair tasks of a run in test mode
TestModeTasks == args.test /\ pc = "await_pairs"

\* C31: in test mode at most 3 service-map items are handed to the
\* per-pair stage.
C31_AtMostThree == TestModeTasks => Len(tasks) <= 3 /\ Len(items) <= 3

\* what the slice of line 160 does: the first four items are handed over
FirstFour ==
  TestModeTasks =>
    LET all == dict_get(service_map, "items", JList(<<>>)).v IN
      /\ Len(tasks) = (IF Len(all) < 4 THEN Len(all) ELSE 4)
      /\ \A i \in 1..Len(tasks) : tasks[i].item = all[i]

(***************************************************************************)
(* Pair tasks and the keys they share                                      *)
(***************************************************************************)
\* task i holds a permit and is inside process_service_item
Active(i) == tasks[i].pc \notin {"start", "done"}

\* the keys task i looked up and missed
MissedKeys(i) ==
  { tasks[i].gets[n].key : n \in { m \in 1..Len(tasks[i].gets) : ~tasks[i].gets[m].hit } }

\* the keys task i wrote
WrittenKeys(i) == Range(tasks[i].sets)

\* C32: within one run no two concurrently running pair tasks operate on
\* the same technical_/pricing_/result_ key, and no key is looked up,
\* missed and then written by two tasks, whatever the service map holds.
C32_KeysOfOnePair ==
  \A i, j \in 1..Len(tasks) :
    i # j =>
      /\ ~(Active(i) /\ Active(j) /\ tasks[i].service_pair_id = tasks[j].service_pair_id)
      /\ (MissedKeys(i) \cap WrittenKeys(i)) \cap (MissedKeys(j) \cap WrittenKeys(j)) = {}

\* tasks of pairs with different ids never touch a key of each other
DistinctPairsDistinctKeys ==
  \A i, j \in 1..Len(tasks) :
    (tasks[i].service_pair_id # tasks[j].service_pair_id) =>
      (WrittenKeys(i) \cup { tasks[i].gets[n].key : n \in 1..Len(tasks[i].gets) })
        \cap (WrittenKeys(j) \cup { tasks[j].gets[n].key : n \in 1..Len(tasks[j].gets) }) = {}

(***************************************************************************)
(* The input of the management summary                                     *)
(***************************************************************************)
\* the syntheses of the tasks that returned a pair of domain d, in the
\* order of the tasks
TaskSyntheses(d) ==
  LET RECURSIVE keep(_)
      keep(i) ==
        IF i = 0 THEN <<>>
        ELSE IF tasks[i].ret # None /\ DomainOf(tasks[i].ret) = d
             THEN Append(keep(i - 1), dict_get(tasks[i].result_json, "synthesis", None))
             ELSE keep(i - 1)
  IN keep(Len(tasks))

\* main has come to the management summary (line 186) in this run
SummaryPhase == pc \in {"summary", "await_summary"} \/ (pc \in {"render", "done"} /\ run > 0)

\* C33: the management summary is looked up and generated only after
\* every pair task of the run has terminated, and the input of the
\* generation, synthesis_by_domain, holds for every domain the syntheses of
\* exactly the tasks that returned a pair of that domain (the pairs of
\* final_results): no dropped pair is in it and no successful one is missing.
C33_SummaryAfterJoin ==
  SummaryPhase =>
    /\ \A i \in 1..Len(tasks) : tasks[i].pc = "done"
    /\ Len(final_results) = Cardinality({ i \in 1..Len(tasks) : tasks[i].ret # None })
    /\ \A i \in 1..Len(tasks) :
         /\ Dropped(i) => tasks[i].ret = None
         /\ tasks[i].ret # None =>
              /\ ~Dropped(i)
              /\ tasks[i].ret \in Range(final_results)
              /\ HasKey(synthesis_by_domain, DomainOf(tasks[i].ret))
    /\ \A g \in 1..Len(synthesis_by_domain.v) :
         synthesis_by_domain.v[g][2].v = TaskSyntheses(synthesis_by_domain.v[g][1])

\* the summary is being generated from two pairs while the third pair was
\* dropped
C33_Witness ==
  /\ pc = "await_summary" /\ summary_calls = 1
  /\ Len(tasks) = 3 /\ Len(final_results) = 2
  /\ \E i \in 1..Len(tasks) : Dropped(i)
  /\ \A i \in 1..Len(tasks) : tasks[i].pc = "done"

(***************************************************************************)
(* The delays of generate_content                                          *)
(***************************************************************************)
\* the sum of a sequence of delays
Total(delays) ==
  LET RECURSIVE sum(_)
      sum(n) == IF n = 0 THEN 0 ELSE sum(n - 1) + delays[n]
  IN sum(Len(delays))

\* C34: generate_content waits 100 ms after failed attempt 0 and 200 ms
\* after failed attempt 1 (0.1 s * 2^attempt), once between two consecutive
\* attempts; it does not wait after its last attempt, be that a success, the
\* third failure or an exception it does not catch, so a call that fails
\* three times has slept exactly twice, for 300 ms.
C34_Backoff ==
  /\ \A n \in 1..Len(slept) : slept[n] = (2 ^ (n - 1)) * 100
  /\ gen_pc = "try" => Len(slept) = Len(outcomes) /\ Len(slept) = attempt
  /\ gen_pc = "sleep" => Len(slept) = Len(outcomes) /\ Len(slept) = attempt + 1
  /\ gen_pc \in {"returned", "raised"} => Len(slept) = Len(outcomes) - 1
  /\ (gen_pc = "returned" /\ Len(outcomes) = 3 /\ \A n \in 1..3 : Retryable(outcomes[n])) =>
       slept = <<100, 200>> /\ Total(slept) = 300

\* three attempts failed and the client has given up after two sleeps
C34_Witness ==
  /\ gen_pc = "returned" /\ result = None
  /\ Len(outcomes) = 3 /\ \A n \in 1..3 : Retryable(outcomes[n])
  /\ slept = <<100, 200>>

(***************************************************************************)
(* The two representations of a response                                   *)
(***************************************************************************)
\* the response carries a structured object
HasParsed(outcome) == outcome.t = "response" /\ Truthy(outcome.parsed)

\* the response carries raw text that is JSON
HasJsonText(outcome) ==
  /\ outcome.t = "response" /\ outcome.text # NoText
  /\ json_load(outcome.text).ok

\* attempt n was the last of the call, which returned value
ReturnedAt(n, value) == gen_pc = "returned" /\ Len(outcomes) = n /\ result = value

\* attempt n was a failed attempt of the retry loop: another attempt
\* follows it, or it was the third and the call returned None
FailedAttempt(n) ==
  IF n < 3 THEN gen_pc \in {"sleep", "try"} \/ Len(outcomes) > n
  ELSE ReturnedAt(n, None)

\* C35: on each attempt generate_content returns the structured object of
\* the response when there is one, otherwise the value of the raw text
\* parsed as JSON, and a response with neither is a failed attempt, which
\* is retried.
C35_EitherRepresentation ==
  \A n \in 1..Len(outcomes) :
    LET outcome == outcomes[n] IN
      outcome.t = "response" =>
        IF HasParsed(outcome) THEN ReturnedAt(n, outcome.parsed)
        ELSE IF HasJsonText(outcome) THEN ReturnedAt(n, json_load(outcome.text).val)
        ELSE FailedAttempt(n)

\* the same without the response that has no text at all: text that is
\* not JSON is a failed attempt
UsableOrRetried ==
  \A n \in 1..Len(outcomes) :
    LET outcome == outcomes[n] IN
      (outcome.t = "response" /\ outcome.text # NoText) =>
        IF HasParsed(outcome) THEN ReturnedAt(n, outcome.parsed)
        ELSE IF HasJsonText(outcome) THEN ReturnedAt(n, json_load(outcome.text).val)
        ELSE FailedAttempt(n)

(***************************************************************************)
(* Resuming a run from the cache                                           *)
(***************************************************************************)
\* a stage document an earlier run produced, less than the TTL ago, the
\* cache not having been cleared since
ProducedEarlier(e) == e \in produced /\ e.at < now /\ now - e.at <= max_age_seconds

\* the document of e is still in the cache, and no task of this run has
\* invoked the stage of its key
Resumed(e) ==
  /\ Truthy(cache_get(files, now, e.key))
  /\ \A i \in 1..Len(tasks) :
       \A s \in Stages(tasks[i].service_pair_id) :
         s.key = e.key => Occurs(tasks[i].invoked, s.name) = 0

\* C36: a stage document that an earlier run produced stays cached under
\* its key, and a following run within the TTL does not invoke the stage
\* again for that key, whichever of the later stages failed.
C36_ResumablePerStage ==
  \A e \in produced : ProducedEarlier(e) => Resumed(e)

\* the same for the keys that name a file in the cache directory
ResumableWhenStorable ==
  \A e \in produced :
    (ProducedEarlier(e) /\ ~open_w_fails(get_filepath(e.key))) => Resumed(e)

(***************************************************************************)
(* The discovery phase of main on any cache (lines 108-161)                *)
(***************************************************************************)
\* what a file of the cache may hold for a discovery key: nothing, a
\* document whose list is empty, or a document with its list
DiscoveryDocs(field, full) == { None, JDict(<<<<field, JList(<<>>)>>>>), JDict(<<<<field, JList(full)>>>>) }

\* the discovery keys, with the field and the full list of their documents
DiscoveryKeys ==
  << [key |-> service_list_key(csp_a), field |-> "services", full |-> ServicesA],
     [key |-> service_list_key(csp_b), field |-> "services", full |-> ServicesB],
     [key |-> service_map_key, field |-> "items",
      full |-> [i \in 1..Len(ServicesA) |-> BestMatch(ServicesA[i])]] >>

\* the cache directory with docs[k] under the k-th discovery key, written
\* a second before the run
DiscoveryFiles(docs) ==
  LET RECURSIVE put(_)
      put(k) == IF k = 0 THEN NoFiles
                ELSE IF docs[k] = None THEN put(k - 1)
                ELSE cache_set_unvalidated(put(k - 1), 0, DiscoveryKeys[k].key, docs[k])
  IN put(Len(DiscoveryKeys))

\* what the request for a service list comes to: the answers of the run
\* model, and a list without services
DiscoveryListAnswers(csp) ==
  ServiceListAnswers(csp) \cup { JDict(<<<<"services", JList(<<>>)>>>>) }

\* what the request for a chunk comes to: the answers of the run model, and
\* a response without items
DiscoveryBatchAnswers(chunk) ==
  BatchAnswers(chunk) \cup { JDict(<<<<"items", JList(<<>>)>>>>) }

DiscoveryInit ==
  /\ \E a \in DiscoveryDocs("services", ServicesA), b \in DiscoveryDocs("services", ServicesB),
        m \in DiscoveryDocs("items", DiscoveryKeys[3].full) :
       files = DiscoveryFiles(<<a, b, m>>)
  /\ now = 1 /\ last = NoOp
  /\ SideInit
  /\ pc = "list_a" /\ run = 1 /\ args = [clear_cache |-> FALSE, test |-> FALSE]
  /\ service_list_a = None /\ service_list_b = None /\ service_map = None
  /\ items = <<>> /\ list_calls = 0
  /\ chunks = <<>> /\ map_sem = 0 /\ tasks = <<>> /\ sem = 0
  /\ final_results = <<>> /\ synthesis_by_domain = JDict(<<>>)
  /\ management_summary = None /\ summary_calls = 0 /\ rendered = None
  /\ runlog = <<>> /\ failures = 0 /\ produced = {}

DiscoveryNext ==
  \/ LookupListA
  \/ \E answer \in DiscoveryListAnswers(csp_a) : ListAReturns(answer)
  \/ LookupListB
  \/ \E answer \in DiscoveryListAnswers(csp_b) : ListBReturns(answer)
  \/ LookupMap
  \/ \E j \in 1..Len(chunks) : ChunkStart(j)
  \/ \E j \in 1..Len(chunks) : \E answer \in DiscoveryBatchAnswers(chunks[j].chunk) :
       ChunkReturns(j, answer)
  \/ MapReturns
  \/ CheckMap

DiscoverySpec == DiscoveryInit /\ [][DiscoveryNext]_vars

\* the document the cache returns for the k-th discovery key in files fs
CachedDoc(fs, k) == cache_get(fs, now, DiscoveryKeys[k].key)

\* the cache holds a document with an empty list under the k-th key
CachedEmpty(fs, k) ==
  Truthy(CachedDoc(fs, k)) /\ ~Truthy(dict_get(CachedDoc(fs, k), DiscoveryKeys[k].field, None))

\* the file of the k-th discovery key was written in this step
Written_(k) ==
  LET filepath == get_filepath(DiscoveryKeys[k].key) IN
    /\ filepath \in DOMAIN files'
    /\ (filepath \notin DOMAIN files \/ files'[filepath] # files[filepath])

\* C37: no step of main writes a service list without services or a
\* service map without items under its key; a cached document whose list is
\* empty is not used: the look-up that finds it goes on to fetch the
\* document again, and main never goes past a look-up with an empty list
\* taken from the cache.
C37_EmptyNeverCachedNorReused ==
  [][ /\ \A k \in 1..Len(DiscoveryKeys) :
           Written_(k) => has_list(CachedDoc(files', k), DiscoveryKeys[k].field)
      /\ (pc = "list_a" /\ pc' # "list_a") =>
           /\ CachedEmpty(files, 1) => pc' = "await_list_a"
           /\ pc' = "list_b" => has_list(service_list_a', "services")
      /\ (pc = "list_b" /\ pc' # "list_b") =>
           /\ CachedEmpty(files, 2) => pc' = "await_list_b"
           /\ pc' = "map" => has_list(service_list_b', "services")
      /\ (pc = "map" /\ pc' # "map") =>
           /\ CachedEmpty(files, 3) => pc' \in {"await_map", "exit"}
           /\ pc' = "check_map" => has_list(service_map', "items")
      /\ pc' = "await_pairs" => Len(items') > 0
    ]_vars

\* the cache held a service list without services; the list was fetched
\* again and the one with services is in the cache now
C37_Witness ==
  /\ pc = "list_b" /\ list_calls = 1
  /\ has_list(service_list_a, "services")
  /\ has_list(CachedDoc(files, 1), "services")
  /\ CachedEmpty(files, 2)

\* the mapping came to a service map without items, which was not stored
EmptyMapNotStored ==
  /\ pc = "exit" /\ chunks # <<>>
  /\ Truthy(service_map) /\ ~has_list(service_map, "items")
  /\ ~Truthy(CachedDoc(files, 3))

(***************************************************************************)
(* A run without a service map                                             *)
(***************************************************************************)
\* no non-empty service map could be obtained: main is past the look-up
\* and the mapping, and holds no map with items
NoServiceMap ==
  /\ pc \notin {"init", "list_a", "await_list_a", "list_b", "await_list_b", "map", "await_map",
                "check_map"}
  /\ ~has_list(service_map, "items")

\* no technical, pricing, synthesis or summary call was made and the
\* renderer was not invoked
NothingAfterDiscovery ==
  /\ tasks = <<>> /\ items = <<>> /\ final_results = <<>>
  /\ summary_calls = 0 /\ management_summary = None
  /\ rendered = None

\* C38: when no non-empty service map can be obtained (no usable cached
\* map, and a service list empty or failed, or a mapping without items),
\* the run exits with a non-zero status before any technical, pricing,
\* synthesis or summary call and before the renderer is invoked.
C38_ExitsWithoutMap ==
  /\ NoServiceMap => pc = "exit" /\ NothingAfterDiscovery
  /\ (pc = "check_map" /\ ~has_list(service_map, "items")) => NothingAfterDiscovery
  /\ pc = "exit" => ~has_list(service_map, "items") /\ NothingAfterDiscovery
  /\ pc = "await_pairs" => has_list(service_map, "items")

\* the list of provider B came back empty, no map was cached, and the run
\* ended at sys.exit(1) without a mapping request
C38_Witness ==
  /\ pc = "exit" /\ chunks = <<>>
  /\ has_list(service_list_a, "services") /\ ~has_list(service_list_b, "services")
  /\ NothingAfterDiscovery

(***************************************************************************)
(* The pair tasks on their own (main.py 164-173), with answers that make   *)
(* process_service_item raise                                              *)
(***************************************************************************)
\* the analysts return what json.loads gave: it may be a list
PairTechnicalAnswers(item) == TechnicalAnswers(item) \cup { JList(<<JStr(<<"x">>)>>) }
PairPricingAnswers(item) == PricingAnswers(item) \cup { JList(<<JStr(<<"x">>)>>) }

\* a task holds a permit
Holds(i) == tasks[i].pc \in {"tech_call", "pricing_call", "synth_call"}

\* a task is over
Over(i) == tasks[i].pc \in {"done", "raised", "cancelled"}

\* line 173: gather passes the first exception of a task on to main, which
\* ends with it; asyncio.run then cancels the tasks that are left, and
\* those that hold a permit give it back on their way out
GatherRaises ==
  /\ pc = "await_pairs"
  /\ \E i \in 1..Len(tasks) : tasks[i].pc = "raised"
  /\ tasks' = [i \in 1..Len(tasks) |->
                 IF Over(i) THEN tasks[i] ELSE [tasks[i] EXCEPT !.pc = "cancelled"]]
  /\ sem' = sem + Cardinality({ i \in 1..Len(tasks) : Holds(i) })
  /\ pc' = "crashed"
  /\ LogRun("crashed", <<>>)
  /\ UNCHANGED <<files, now, last, sideVars, failures, run, args, discVars, mapVars, endVars, produced>>

\* the service map of the run: the matched pairs, and a service without a
\* match, which the mapper's fallback shapes
PairItems == Append(DiscoveryKeys[3].full, get_fallback(Entry(SNS)))

PairInit ==
  /\ files = NoFiles /\ now = 0 /\ last = NoOp
  /\ SideInit
  /\ pc = "await_pairs" /\ run = 1 /\ args = [clear_cache |-> FALSE, test |-> FALSE]
  /\ service_list_a = None /\ service_list_b = None
  /\ service_map = JDict(<<<<"items", JList(PairItems)>>>>)
  /\ items = PairItems /\ list_calls = 0
  /\ chunks = <<>> /\ map_sem = 0
  /\ tasks = [i \in 1..Len(PairItems) |-> NewTask(PairItems[i])]
  /\ sem = MAX_CONCURRENT_REQUESTS
  /\ final_results = <<>> /\ synthesis_by_domain = JDict(<<>>)
  /\ management_summary = None /\ summary_calls = 0 /\ rendered = None
  /\ runlog = <<>> /\ failures = 0 /\ produced = {}

PairNext ==
  \/ \E i \in 1..Len(tasks) : TaskStart(i)
  \/ \E i \in 1..Len(tasks) : \E answer \in PairTechnicalAnswers(tasks[i].item) :
       TechnicalReturns(i, answer)
  \/ \E i \in 1..Len(tasks) : \E answer \in PairPricingAnswers(tasks[i].item) :
       PricingReturns(i, answer)
  \/ \E i \in 1..Len(tasks) :
       \E answer \in SynthesisAnswers(tasks[i].service_pair_id, tasks[i].synth_args[1],
                                      tasks[i].synth_args[2], now) :
         SynthesisReturns(i, answer)
  \/ Gather
  \/ GatherRaises

\* A task that waits for a permit can run: its guards in TaskStart
StartReady ==
  /\ pc = "await_pairs"
  /\ can_acquire(sem)
  /\ \E i \in 1..Len(tasks) : tasks[i].pc = "start"

\* A step in which a waiting task took its permit and ran
StartTaken ==
  /\ pc' = "await_pairs"
  /\ \E i \in 1..Len(tasks) : tasks[i].pc = "start" /\ tasks'[i].pc # "start"

\* The event loop runs every task that is ready, and every external call
\* returns. The first conjunct is weak fairness of TaskStart, written with
\* its enabling condition StartReady spelled out.
PairFairness ==
  /\ (<>[]StartReady => []<><<StartTaken>>_vars)
  /\ WF_vars(\E i \in 1..Len(tasks) : \E answer \in PairTechnicalAnswers(tasks[i].item) :
               TechnicalReturns(i, answer))
  /\ WF_vars(\E i \in 1..Len(tasks) : \E answer \in PairPricingAnswers(tasks[i].item) :
               PricingReturns(i, answer))
  /\ WF_vars(\E i \in 1..Len(tasks) :
               \E answer \in SynthesisAnswers(tasks[i].service_pair_id, tasks[i].synth_args[1],
                                              tasks[i].synth_args[2], now) :
                 SynthesisReturns(i, answer))
  /\ WF_vars(Gather)
  /\ WF_vars(GatherRaises)

PairSpec == PairInit /\ [][PairNext]_vars /\ PairFairness

\* C39: the permits that are free and the permits the running tasks hold
\* are MAX_CONCURRENT_REQUESTS in all, on every path of a task (unmatched
\* skip, drop at a stage, success, exception), so none is leaked; with more
\* items than permits, every pair task comes to its end and the gather in
\* main completes.
C39_NoPermitLeaked ==
  /\ [](sem >= 0 /\ sem + Cardinality({ i \in 1..Len(tasks) : Holds(i) }) = MAX_CONCURRENT_REQUESTS)
  /\ (pc = "await_pairs") ~> (pc # "await_pairs" /\ \A i \in 1..Len(tasks) : Over(i))

\* every task is over, one after a drop, one after an exception and one
\* after the skip of an unmatched item, and the permits are all free
C39_Witness ==
  /\ Len(tasks) > MAX_CONCURRENT_REQUESTS
  /\ \A i \in 1..Len(tasks) : Over(i)
  /\ \E i \in 1..Len(tasks) : Dropped(i)
  /\ \E i \in 1..Len(tasks) : tasks[i].pc = "raised"
  /\ \E i \in 1..Len(tasks) : Unmatched(tasks[i].item) /\ tasks[i].pc = "done"
  /\ sem = MAX_CONCURRENT_REQUESTS

(***************************************************************************)
(* The frame of cache.get (checked under CacheSpec)                        *)
(***************************************************************************)
\* the file of k is older than the maximum age
Expired(k) == HasFile(k) /\ Age(k) > max_age_seconds

\* C40: a get leaves every file as it was, text and write time, whatever it
\* found (a hit, no file, an expired, an invalid or a corrupt file); the get
\* of an expired entry returns nothing and the entry is still expired after
\* it; and an expired entry is answered with a value again only by the step
\* that sets its key.
C40_GetLeavesStore ==
  [][ /\ last'.op = "get" =>
           /\ files' = files
           /\ \A k \in CacheKeys :
                Expired(k) => /\ get_filepath(k) \in DOMAIN files'
                              /\ now' - files'[get_filepath(k)].mtime > max_age_seconds
                              /\ (last'.key = k => last'.ret = None)
      /\ \A k \in CacheKeys :
           (Expired(k) /\ cache_get(files', now', k) # None)
             => (last'.op = "set" /\ last'.key = k) ]_vars

\* a get has just found an expired file, which is still there
C40_Witness ==
  /\ last.op = "get"
  /\ Expired(last.key)
  /\ last.ret = None

\* a get has just read a file that is not JSON, which is still there
GetOfCorrupt ==
  /\ last.op = "get"
  /\ HasFile(last.key)
  /\ ~Expired(last.key)
  /\ decodes(FileOf(last.key).text) /\ ~json_load(FileOf(last.key).text).ok

\* every task is over, one of them with a result
PairSucceeded ==
  /\ pc # "await_pairs"
  /\ \A i \in 1..Len(tasks) : Over(i)
  /\ \E i \in 1..Len(tasks) : tasks[i].ret # None /\ tasks[i].pc = "done"

=============================================================================
